---- MODULE Spec2Model ----
(***************************************************************************)
(* daily-go: repository / commit aggregation pipeline.                     *)
(*                                                                         *)
(*   Spec        github.GitHub.GetCommitsForRepoByDay: weekday cutoff and  *)
(*               GetCommitsFromAllBranches (branch fan-out, merge by SHA)  *)
(*   SpecDetail  github.Client.GetRepositoryCommits (the detail variant)   *)
(*   SpecAgg     both aggregation variants                                 *)
(*   SpecFilter  main.GitHub.GetRecentlyUpdatedRepos (activity filter)     *)
(*   SpecLLM     main.LLMService.GenerateSummary and                       *)
(*               llm.Gemini.GenerateContent (summary generation)           *)
(*                                                                         *)
(* Instants are hours of local time; a day has 24 hours (no DST shift).    *)
(* The platform and the generative endpoint are the environment: their     *)
(* answers, and the failure of any request, are chosen nondeterministically.*)
(***************************************************************************)
EXTENDS Integers, Sequences, FiniteSets, TLC

VARIABLES
    \* ---- the hosting platform and the clock (environment)
    now,          \* time.Now(), in hours since the epoch
    branchOrder,  \* the branches of the repository, in the order the platform lists them
    reach,        \* branch name -> set of commit SHAs reachable from it
    \* ---- github.GitHub / github.Client and the running aggregation call
    repos,        \* gh.repos: the stored repository list
    pc,           \* position of the running call: "idle", "loop", "done"
    op,           \* the running operation
    repoName,     \* argument repoName
    since,        \* the cutoff instant handed to the platform
    branches,     \* the branch list fetched by the call
    idx,          \* number of branches already processed by the loop
    allCommits,   \* the result slice under construction (sequence of commits)
    commitMap,    \* set of SHAs with commitMap[sha] = true
    err,          \* the returned error: FALSE is nil
    okBranches,   \* history: branches whose commit listing succeeded
    listFailed,   \* history: the branch listing request of the call failed
    skipped,      \* history: SHAs for which a GetCommit detail request has failed
    failedPages,  \* history: the <<branch, page>> of the commit listing requests that failed
    branchPages,  \* history: the pages of the branch listing requests, in order
    pageLog,      \* history: the <<branch, page>> of the commit listing requests, in order
    detailLog,    \* history: the single-commit detail requests issued, in order
    \* ---- main.GitHub and the activity filter
    heap,         \* backing arrays of the slices: array id -> sequence of Repo
    ghRepos,      \* gh.repos, a slice [arr, len]
    fpc,          \* "idle", "called" (filter applied), "reapplied" (applied to its output)
    daysBack,     \* argument daysBack of the filter call
    recent,       \* the slice returned by the filter call
    recent2,      \* the slice returned by the filter applied to its own output
    before,       \* history: the contents of gh.repos when the filter was called
    callNow,      \* history: time.Now() of the filter call
    callNow2,     \* history: time.Now() of the second filter call
    \* ---- main.LLMService / llm.Gemini and the generative endpoint
    lpc,          \* "idle", "done"
    lop,          \* the operation called: "GenerateSummary", "GenerateContent"
    llmCommits,   \* argument commits of GenerateSummary
    response,     \* the endpoint's answer to the request of the call
    prompt,       \* the digest lines built for the prompt
    summary,      \* the returned string
    lerr,         \* the returned error: FALSE is nil
    requests,     \* number of requests issued to the generative endpoint
    \* ---- func main, NewGithub and LoadReposFromUser (program start)
    program,      \* "summary": package main of src/; "viewer": the TUI over package github
    env,          \* the environment variables read by main
    platformRepos,\* the repositories the platform lists for the token's user
    ghUser,       \* gh.user.username
    spc,          \* position of main: "start", "validated", "loading", "constructed",
                  \* "tui", "exited"
    validateErr,  \* the error returned by config.Validate: "" is nil
    loadPage,     \* the local page of LoadReposFromUser
    allRepos,     \* the local allRepos of LoadReposFromUser
    loadFailed,   \* history: a request of the repository load has failed
    netlog,       \* history: the requests issued so far, in order
    \* ---- the commit listing calls: GetCommitsForRepoSinceFromBranch, GetLatestCommits
    platformCommits, \* repository name -> branch -> the commits of the branch, newest first
    cpc,          \* position of the listing call: "idle", "loop", "done"
    cop,          \* the listing operation called
    nameArg,      \* argument repoName
    sinceArg,     \* argument since (0 is the zero time), or the since of GetLatestCommits
    branchArg,    \* argument branchName ("" is none)
    selection,    \* argument repoNames of GetLatestCommits: the selected choice labels
    cpage,        \* the local page of the page loop
    lidx,         \* number of selected repositories already processed
    listed,       \* the local allCommits, returned at the end
    cerr,         \* the returned error: FALSE is nil
    okRepos,      \* history: positions of the selection whose request succeeded
    reqLog,       \* history: the commit listing requests issued, in order
    \* ---- github.Client.GetRepositoriesWithRecentCommits (the activity report)
    ownedRepos,   \* the repositories the platform lists for the user
    orgList,      \* the organizations the platform lists for the user
    orgRepos,     \* organization -> the repositories the platform lists for it
    rpc,          \* position of the call: "idle", "orgs", "check", "done"
    reposMap,     \* the local reposMap: the candidate repositories
    checkOrder,   \* the order in which "range reposMap" yields the candidates
    cidx,         \* number of candidates already checked
    report,       \* the local repos, returned at the end
    rerr,         \* the returned error: FALSE is nil
    orgListFailed,\* history: listing the organizations failed
    failedOrgs,   \* history: organizations whose repository listing failed
    failedChecks, \* history: candidates whose commit check failed
    \* ---- LoadConfig and the process environment
    osEnv,        \* os.Getenv: variable name -> Absent (unset) or Param(value)
    config,       \* the Config returned by LoadConfig
    kpc,          \* "idle", "loaded"
    \* ---- the terminal interface: model.Update of package main
    model,        \* the model value held by the tea.Program
    prevModel,    \* history: the model handed to the last Update
    lastMsg,      \* history: the message handed to the last Update
    cmd,          \* the tea.Cmd returned by the last Update
    inflight,     \* the background tasks that are running: their commands
    lastLoad,     \* history: the last commitsLoadedMsg handed to Update
    running,      \* "running", "quit" (tea.Quit was processed), "panic"
    recentRepos   \* daysBack -> the choices of GetRecentlyUpdatedReposChoices

aggVars == <<branchOrder, reach, repos, pc, op, repoName, since, branches,
             idx, allCommits, commitMap, err, okBranches, listFailed, skipped,
             failedPages, branchPages, pageLog, detailLog>>

\* aggVars without gh.repos
aggCallVars == <<branchOrder, reach, pc, op, repoName, since, branches,
                 idx, allCommits, commitMap, err, okBranches, listFailed, skipped,
             failedPages, branchPages, pageLog, detailLog>>

filterVars == <<heap, ghRepos, fpc, daysBack, recent, recent2, before, callNow, callNow2>>

llmVars == <<lpc, lop, llmCommits, response, prompt, summary, lerr, requests>>

startVars == <<program, env, platformRepos, ghUser, spc, validateErr, loadPage, allRepos,
               loadFailed, netlog>>

listVars == <<platformCommits, cpc, cop, nameArg, sinceArg, branchArg, selection, cpage,
              lidx, listed, cerr, okRepos, reqLog>>

reportVars == <<ownedRepos, orgList, orgRepos, rpc, reposMap, checkOrder, cidx, report,
                rerr, orgListFailed, failedOrgs, failedChecks>>

configVars == <<osEnv, config, kpc>>

tuiVars == <<model, prevModel, lastMsg, cmd, inflight, lastLoad, running, recentRepos>>

vars == <<now, aggVars, filterVars, llmVars, startVars, listVars, reportVars, configVars,
          tuiVars>>

----------------------------------------------------------------------------
(* Bounds of the model *)

MaxCommits == 3          \* commit SHAs are 1..MaxCommits

(* Program and calendar constants *)

perPage == 100           \* GitHub API max per page
HoursPerDay == 24
DaysPerWeek == 7
EpochWeekday == 4        \* day 0 of the epoch is a Thursday (time.Weekday: Sunday = 0)
Monday == 1
MondayDaysBack == 3
OtherDaysBack == 1

SHAs == 1 .. MaxCommits
BranchNames == {"main", "dev"}
RepoNames == {"app", "ghost"}
TimesOfDay == {0, 13}
FirstDay == 3
Days == FirstDay .. (FirstDay + DaysPerWeek - 1)
Nows == {d * HoursPerDay + h : d \in Days, h \in TimesOfDay}
DetailNows == {d * HoursPerDay + h : d \in FirstDay .. (FirstDay + MaxCommits), h \in TimesOfDay}

----------------------------------------------------------------------------
(* Generic helpers *)

Min(a, b) == IF a < b THEN a ELSE b

ToSet(s) == {s[i] : i \in 1 .. Len(s)}

\* some sequence of the elements of S, each once
RECURSIVE SetToSeq(_)
SetToSeq(S) ==
    IF S = {} THEN <<>>
    ELSE LET x == CHOOSE y \in S : TRUE IN <<x>> \o SetToSeq(S \ {x})

Count(s, x) == Cardinality({i \in 1 .. Len(s) : s[i] = x})

NoDup(s) == \A i, j \in 1 .. Len(s) : s[i] = s[j] => i = j

\* all sequences without repetition over the set S
RECURSIVE Arrangements(_)
Arrangements(S) ==
    {<<>>} \cup UNION {{<<x>> \o t : t \in Arrangements(S \ {x})} : x \in S}

\* the permutations of the sequence s
SeqPermutations(s) == {t \in Arrangements(ToSet(s)) : Len(t) = Len(s)}

----------------------------------------------------------------------------
(* Time: instants are hours since the epoch, local time *)

DayOf(t) == t \div HoursPerDay

Weekday(t) == (DayOf(t) + EpochWeekday) % DaysPerWeek

\* t.AddDate(0, 0, n)
AddDays(t, n) == t + n * HoursPerDay

\* mutant of StartOfDay: the time of day is kept
StartOfDayKeepsTime(t) == t

\* time.Date(t.Year(), t.Month(), t.Day(), 0, 0, 0, 0, t.Location())
StartOfDay(t) == DayOf(t) * HoursPerDay

\* the switch on the weekday in GetCommitsForRepoByDay
DaysBackFor(weekday) == IF weekday = Monday THEN MondayDaysBack ELSE OtherDaysBack

\* the cutoff computed by GetCommitsForRepoByDay
CutoffByDay(t) == StartOfDay(AddDays(t, 0 - DaysBackFor(Weekday(t))))

----------------------------------------------------------------------------
(* The platform: commits of a branch since a cutoff, newest first *)

\* commit sha was authored at noon of day sha + FirstDay - 1
CommitDate(sha) == (sha + FirstDay - 1) * HoursPerDay + 12

Commit(sha) == [SHA |-> sha, Date |-> CommitDate(sha)]

\* the commits of S by descending SHA, which is descending date
NewestFirst(S) ==
    IF S = {} THEN <<>>
    ELSE LET m == CHOOSE x \in S : \A y \in S : y <= x
         IN SelectSeq([i \in 1 .. m |-> Commit(m - i + 1)], LAMBDA c : c.SHA \in S)

\* GET /repos/{full_name}/commits?since=..&sha=branch : the whole listing
PlatformCommits(branch, sinceT) ==
    NewestFirst({s \in reach[branch] : CommitDate(s) >= sinceT})

\* one page of a listing
PageOf(list, page) ==
    SubSeq(list, (page - 1) * perPage + 1, Min(page * perPage, Len(list)))

\* mutant of FetchPages: a failed page request ends the listing without an error and
\* keeps the pages fetched before it
RECURSIVE FetchPagesPartial(_, _, _, _)
FetchPagesPartial(list, page, acc, failPage) ==
    IF page = failPage THEN [err |-> FALSE, items |-> acc]
    ELSE LET items == PageOf(list, page)
         IN IF Len(items) = 0 THEN [err |-> FALSE, items |-> acc]
            ELSE IF Len(items) < perPage THEN [err |-> FALSE, items |-> acc \o items]
            ELSE FetchPagesPartial(list, page + 1, acc \o items, failPage)

\* the pagination loop shared by the listing calls; failPage = 0: no request fails
RECURSIVE FetchPages(_, _, _, _)
FetchPages(list, page, acc, failPage) ==
    IF page = failPage THEN [err |-> TRUE, items |-> <<>>]
    ELSE LET items == PageOf(list, page)
         IN IF Len(items) = 0 THEN [err |-> FALSE, items |-> acc]
            ELSE IF Len(items) < perPage THEN [err |-> FALSE, items |-> acc \o items]
            ELSE FetchPages(list, page + 1, acc \o items, failPage)

\* mutant of PagesAsked: the loop stops only at an empty page, not at a short one
RECURSIVE PagesAskedUntilEmpty(_, _, _)
PagesAskedUntilEmpty(list, page, failPage) ==
    IF page = failPage \/ Len(PageOf(list, page)) = 0 THEN <<page>>
    ELSE <<page>> \o PagesAskedUntilEmpty(list, page + 1, failPage)

\* the pages that the pagination loop asks for, in order
RECURSIVE PagesAsked(_, _, _)
PagesAsked(list, page, failPage) ==
    IF page = failPage \/ Len(PageOf(list, page)) < perPage THEN <<page>>
    ELSE <<page>> \o PagesAsked(list, page + 1, failPage)

\* number of page requests a listing of n items takes
PagesOf(n) == (n \div perPage) + 1

----------------------------------------------------------------------------
(* github.GitHub (the REST variant): branch listing, commit listing, merge *)

\* mutant of GetBranchesForRepo: an empty branch list is reported as an error
GetBranchesForRepoEmptyIsError(name, failPage) ==
    LET r == FetchPages(branchOrder, 1, <<>>, failPage)
    IN IF (\A i \in 1 .. Len(repos) : repos[i].Name # name) \/ Len(r.items) = 0
       THEN [err |-> TRUE, items |-> <<>>]
       ELSE r

\* the lookup "for _, repo := range gh.repos { if repo.Name == repoName ..."
RepoKnown(name) == \E i \in 1 .. Len(repos) : repos[i].Name = name

GetBranchesForRepo(name, failPage) ==
    IF ~RepoKnown(name) THEN [err |-> TRUE, items |-> <<>>]
    ELSE FetchPages(branchOrder, 1, <<>>, failPage)

GetCommitsForRepoSinceFromBranch(name, sinceT, branchName, failPage) ==
    IF ~RepoKnown(name) THEN [err |-> TRUE, items |-> <<>>]
    ELSE FetchPages(PlatformCommits(branchName, sinceT), 1, <<>>, failPage)

\* s without the elements whose SHA is in seen or occurs earlier in s
FirstSeen(s, seen) ==
    LET keep == {i \in 1 .. Len(s) :
                    /\ s[i].SHA \notin seen
                    /\ \A j \in 1 .. (i - 1) : s[j].SHA # s[i].SHA}
        kept == SelectSeq([i \in 1 .. Len(s) |-> i], LAMBDA i : i \in keep)
    IN [k \in 1 .. Len(kept) |-> s[kept[k]]]

\* mutant of AddUnique: the commitMap test is missing
RECURSIVE AddUniqueNoCheck(_, _, _)
AddUniqueNoCheck(all, map, commits) ==
    IF commits = <<>> THEN [all |-> all, map |-> map]
    ELSE AddUniqueNoCheck(Append(all, Head(commits)), map \cup {Head(commits).SHA},
                          Tail(commits))

\* mutant of AddUnique: "break" at the first known commit instead of skipping it
RECURSIVE AddUniqueBreak(_, _, _)
AddUniqueBreak(all, map, commits) ==
    IF commits = <<>> \/ Head(commits).SHA \in map THEN [all |-> all, map |-> map]
    ELSE AddUniqueBreak(Append(all, Head(commits)), map \cup {Head(commits).SHA},
                        Tail(commits))

\* mutant of AddUnique: the merged sequence is re-sorted by date, newest first
AddUniqueSorted(all, map, commits) ==
    LET fresh == FirstSeen(commits, map)
        shas == {c.SHA : c \in ToSet(all \o fresh)}
    IN [all |-> NewestFirst(shas), map |-> map \cup {c.SHA : c \in ToSet(fresh)}]

\* "Add unique commits": the inner loop of GetCommitsFromAllBranches appends, in
\* order, the commits whose SHA is neither in commitMap nor earlier in the listing
AddUnique(all, map, commits) ==
    LET fresh == FirstSeen(commits, map)
    IN [all |-> all \o fresh, map |-> map \cup {c.SHA : c \in ToSet(fresh)}]

\* the whole branch loop when every commit listing succeeds
RECURSIVE MergeBranches(_, _, _, _)
MergeBranches(brs, sinceT, all, map) ==
    IF brs = <<>> THEN all
    ELSE LET r == AddUnique(all, map, PlatformCommits(Head(brs), sinceT))
         IN MergeBranches(Tail(brs), sinceT, r.all, r.map)

\* GetCommitsForRepoByDay: computes the cutoff and enters GetCommitsFromAllBranches,
\* which first lists the branches
GetCommitsForRepoByDay ==
    /\ pc = "idle"
    /\ \E name \in RepoNames, failPage \in 0 .. PagesOf(Len(branchOrder)) :
        LET b == GetBranchesForRepo(name, failPage)
        IN /\ op' = "ByDay"
           /\ repoName' = name
           /\ since' = CutoffByDay(now)
           /\ branches' = b.items
           /\ idx' = 0
           /\ allCommits' = <<>>
           /\ commitMap' = {}
           /\ err' = b.err
           /\ listFailed' = (RepoKnown(name) /\ failPage # 0)
           /\ branchPages' = IF RepoKnown(name) THEN PagesAsked(branchOrder, 1, failPage)
                             ELSE <<>>
           /\ pc' = IF b.err \/ Len(b.items) = 0 THEN "done" ELSE "loop"
    /\ UNCHANGED <<now, branchOrder, reach, repos, okBranches, skipped, failedPages,
                   pageLog, detailLog,
                   filterVars, llmVars, startVars, listVars, reportVars,
                   configVars, tuiVars>>

\* one iteration of "for _, branch := range branches" in GetCommitsFromAllBranches
AllBranchesStep ==
    /\ pc = "loop"
    /\ op = "ByDay"
    /\ idx < Len(branches)
    /\ LET branch == branches[idx + 1]
       IN \E failPage \in 0 .. PagesOf(Len(PlatformCommits(branch, since))) :
           LET f == GetCommitsForRepoSinceFromBranch(repoName, since, branch, failPage)
               r == AddUnique(allCommits, commitMap, f.items)
           IN /\ allCommits' = IF f.err THEN allCommits ELSE r.all
              /\ commitMap' = IF f.err THEN commitMap ELSE r.map
              /\ okBranches' = IF f.err THEN okBranches ELSE okBranches \cup {branch}
              /\ failedPages' = IF f.err THEN failedPages \cup {<<branch, failPage>>}
                                 ELSE failedPages
              /\ pageLog' = pageLog \o
                    [i \in 1 .. Len(PagesAsked(PlatformCommits(branch, since), 1, failPage))
                        |-> <<branch, PagesAsked(PlatformCommits(branch, since), 1, failPage)[i]>>]
    /\ idx' = idx + 1
    /\ pc' = IF idx + 1 = Len(branches) THEN "done" ELSE "loop"
    /\ UNCHANGED <<now, branchOrder, reach, repos, op, repoName, since, branches,
                   err, listFailed, skipped, filterVars, llmVars, startVars, listVars, reportVars,
                   configVars, tuiVars, detailLog, branchPages>>

----------------------------------------------------------------------------
(* github.Client (the go-github variant): GetRepositoryCommits *)

DetailDaysBack == {1, 7}

\* resp.NextPage of a listing: 0 on the last page
NextPage(list, page) == IF page * perPage < Len(list) THEN page + 1 ELSE 0

\* mutant of commitExists: no commit is ever found in the list
commitExistsNever(commits, sha) == FALSE

\* commitExists
commitExists(commits, sha) == \E i \in 1 .. Len(commits) : commits[i].SHA = sha

\* "for _, commit := range ghCommits": skip known commits and commits whose
\* detail request fails (the SHAs in detailFail), append the others
AddDetailed(commits, page, detailFail) ==
    LET keep == {i \in 1 .. Len(page) :
                    /\ ~commitExists(commits, page[i].SHA)
                    /\ page[i].SHA \notin detailFail
                    /\ \A j \in 1 .. (i - 1) : page[j].SHA # page[i].SHA}
        kept == SelectSeq([i \in 1 .. Len(page) |-> i], LAMBDA i : i \in keep)
    IN commits \o [k \in 1 .. Len(kept) |-> page[kept[k]]]

\* the page loop of one branch: a failed listing breaks out of the loop and keeps
\* what the earlier pages added
RECURSIVE BranchPages(_, _, _, _, _)
BranchPages(commits, list, page, failPage, detailFail) ==
    IF page = failPage THEN [err |-> TRUE, commits |-> commits]
    ELSE LET added == AddDetailed(commits, PageOf(list, page), detailFail)
         IN IF NextPage(list, page) = 0 THEN [err |-> FALSE, commits |-> added]
            ELSE BranchPages(added, list, NextPage(list, page), failPage, detailFail)

\* the pages that the page loop of one branch asks for, in order
RECURSIVE BranchPagesAsked(_, _, _)
BranchPagesAsked(list, page, failPage) ==
    IF page = failPage \/ NextPage(list, page) = 0 THEN <<page>>
    ELSE <<page>> \o BranchPagesAsked(list, NextPage(list, page), failPage)

\* the GetCommit requests of "for _, commit := range ghCommits", in order: one for every
\* commit of the page that is not yet in commits
DetailsAsked(commits, page, detailFail, branch) ==
    LET ask == {i \in 1 .. Len(page) :
                   /\ ~commitExists(commits, page[i].SHA)
                   /\ \A j \in 1 .. (i - 1) :
                         page[j].SHA = page[i].SHA => page[j].SHA \in detailFail}
        asked == SelectSeq([i \in 1 .. Len(page) |-> i], LAMBDA i : i \in ask)
    IN [k \in 1 .. Len(asked) |->
           [sha |-> page[asked[k]].SHA, branch |-> branch,
            ok |-> page[asked[k]].SHA \notin detailFail]]

\* the GetCommit requests of the page loop of one branch
RECURSIVE BranchDetailsAsked(_, _, _, _, _, _)
BranchDetailsAsked(commits, list, page, failPage, detailFail, branch) ==
    IF page = failPage THEN <<>>
    ELSE DetailsAsked(commits, PageOf(list, page), detailFail, branch) \o
         (IF NextPage(list, page) = 0 THEN <<>>
          ELSE BranchDetailsAsked(AddDetailed(commits, PageOf(list, page), detailFail),
                                  list, NextPage(list, page), failPage, detailFail,
                                  branch))

\* the sets of commits of a listing whose detail request fails in a run: every subset
\* of a short listing; of a long one none, its first commit or its last commit
DetailFailures(list) ==
    IF Len(list) <= MaxCommits THEN SUBSET ToSet(list)
    ELSE {{}, {list[1]}, {list[Len(list)]}}

\* the SHAs for which the pass over a branch issued a detail request that failed
DetailRequested(commits, list, failPage, detailFail) ==
    {e.sha : e \in {d \in ToSet(BranchDetailsAsked(commits, list, 1, failPage,
                                                    {c.SHA : c \in detailFail}, "")) :
                        ~d.ok}}

\* GetRepositoryCommits up to the branch loop: one ListBranches request
GetRepositoryCommits ==
    /\ pc = "idle"
    /\ \E name \in {repos[i].FullName : i \in 1 .. Len(repos)}, d \in DetailDaysBack,
          failed \in BOOLEAN :
        /\ op' = "RepoCommits"
        /\ repoName' = name
        /\ since' = AddDays(now, 0 - d)
        /\ branches' = IF failed THEN <<>> ELSE PageOf(branchOrder, 1)
        /\ err' = failed
        /\ listFailed' = failed
        /\ branchPages' = <<1>>
        /\ pc' = IF failed \/ Len(branchOrder) = 0 THEN "done" ELSE "loop"
    /\ idx' = 0
    /\ allCommits' = <<>>
    /\ commitMap' = {}
    /\ UNCHANGED <<now, branchOrder, reach, repos, okBranches, skipped, failedPages,
                   pageLog, detailLog,
                   filterVars, llmVars, startVars, listVars, reportVars,
                   configVars, tuiVars>>

\* one iteration of "for _, branch := range branches" in GetRepositoryCommits
RepoCommitsStep ==
    /\ pc = "loop"
    /\ op = "RepoCommits"
    /\ idx < Len(branches)
    /\ LET branch == branches[idx + 1]
           list == PlatformCommits(branch, since)
       IN \E failPage \in 0 .. PagesOf(Len(list)), detailFail \in DetailFailures(list) :
           LET r == BranchPages(allCommits, list, 1, failPage,
                                {c.SHA : c \in detailFail})
           IN /\ allCommits' = r.commits
              /\ okBranches' = IF r.err THEN okBranches ELSE okBranches \cup {branch}
              /\ failedPages' = IF r.err THEN failedPages \cup {<<branch, failPage>>}
                                 ELSE failedPages
              /\ pageLog' = pageLog \o
                    [i \in 1 .. Len(BranchPagesAsked(list, 1, failPage))
                        |-> <<branch, BranchPagesAsked(list, 1, failPage)[i]>>]
              /\ detailLog' = detailLog \o
                    BranchDetailsAsked(allCommits, list, 1, failPage,
                                       {c.SHA : c \in detailFail}, branch)
              /\ skipped' = skipped \cup DetailRequested(allCommits, list, failPage, detailFail)
    /\ idx' = idx + 1
    /\ pc' = IF idx + 1 = Len(branches) THEN "done" ELSE "loop"
    /\ UNCHANGED <<now, branchOrder, reach, repos, op, repoName, since, branches,
                   commitMap, err, listFailed, branchPages, filterVars, llmVars, startVars,
                   listVars, reportVars, configVars, tuiVars>>

----------------------------------------------------------------------------
(* The variables of the other components while they do not run *)

NilSlice == [arr |-> "nil", len |-> 0]

\* the filter's variables before any call
FilterIdle ==
    /\ fpc = "idle"
    /\ daysBack = 0
    /\ recent = NilSlice
    /\ recent2 = NilSlice
    /\ before = <<>>
    /\ callNow = 0
    /\ callNow2 = 0

\* no main.GitHub client exists in the runs of the aggregation
FilterUnused ==
    /\ heap = <<>>
    /\ ghRepos = NilSlice
    /\ FilterIdle

\* the summary service before any call
LLMIdle ==
    /\ lpc = "idle"
    /\ lop = "none"
    /\ llmCommits = <<>>
    /\ response = [kind |-> "none"]
    /\ prompt = <<>>
    /\ summary = ""
    /\ lerr = FALSE
    /\ requests = 0

\* no program has been started
StartUnused ==
    /\ program = "none"
    /\ env = [GITHUB_ACCESS_TOKEN |-> "", GEMINI_API_KEY |-> "", GITHUB_USERNAME |-> ""]
    /\ platformRepos = <<>>
    /\ ghUser = ""
    /\ spc = "start"
    /\ validateErr = ""
    /\ loadPage = 0
    /\ allRepos = <<>>
    /\ loadFailed = FALSE
    /\ netlog = <<>>

\* no commit listing call runs
ListUnused ==
    /\ platformCommits = <<>>
    /\ cpc = "idle"
    /\ cop = "none"
    /\ nameArg = ""
    /\ sinceArg = 0
    /\ branchArg = ""
    /\ selection = <<>>
    /\ cpage = 0
    /\ lidx = 0
    /\ listed = <<>>
    /\ cerr = FALSE
    /\ okRepos = {}
    /\ reqLog = <<>>

\* the activity report before the call
ReportIdle ==
    /\ rpc = "idle"
    /\ reposMap = {}
    /\ checkOrder = <<>>
    /\ cidx = 0
    /\ report = <<>>
    /\ rerr = FALSE
    /\ orgListFailed = FALSE
    /\ failedOrgs = {}
    /\ failedChecks = {}

\* LoadConfig is not called
ConfigUnused ==
    /\ osEnv = <<>>
    /\ config = <<>>
    /\ kpc = "idle"

\* no terminal interface runs
TuiUnused ==
    /\ model = <<>>
    /\ prevModel = <<>>
    /\ lastMsg = <<>>
    /\ cmd = <<>>
    /\ inflight = {}
    /\ lastLoad = <<>>
    /\ running = "none"
    /\ recentRepos = <<>>

\* no activity report is asked for
ReportUnused ==
    /\ ownedRepos = <<>>
    /\ orgList = <<>>
    /\ orgRepos = <<>>
    /\ ReportIdle

----------------------------------------------------------------------------
(* Specification of the aggregation *)

StoredRepos ==
    <<[Name |-> "lib", FullName |-> "me/lib"], [Name |-> "app", FullName |-> "me/app"]>>

AggIdle ==
    /\ pc = "idle"
    /\ op = "none"
    /\ repoName = ""
    /\ since = 0
    /\ branches = <<>>
    /\ idx = 0
    /\ allCommits = <<>>
    /\ commitMap = {}
    /\ err = FALSE
    /\ okBranches = {}
    /\ listFailed = FALSE
    /\ skipped = {}
    /\ failedPages = {}
    /\ branchPages = <<>>
    /\ pageLog = <<>>
    /\ detailLog = <<>>

Platform ==
    /\ branchOrder \in Arrangements(BranchNames)
    /\ reach \in [BranchNames -> SUBSET SHAs]

Init ==
    /\ now \in Nows
    /\ Platform
    /\ repos = StoredRepos
    /\ AggIdle
    /\ FilterUnused
    /\ LLMIdle
    /\ ConfigUnused
    /\ TuiUnused
    /\ StartUnused
    /\ ListUnused
    /\ ReportUnused

Next ==
    \/ GetCommitsForRepoByDay
    \/ AllBranchesStep

Spec == Init /\ [][Next]_vars

InitDetail ==
    /\ now \in DetailNows
    /\ Platform
    /\ repos = StoredRepos
    /\ AggIdle
    /\ FilterUnused
    /\ LLMIdle
    /\ ConfigUnused
    /\ TuiUnused
    /\ StartUnused
    /\ ListUnused
    /\ ReportUnused

NextDetail ==
    \/ GetRepositoryCommits
    \/ RepoCommitsStep

SpecDetail == InitDetail /\ [][NextDetail]_vars

\* both aggregation variants
SpecAgg == Init /\ [][Next \/ NextDetail]_vars

----------------------------------------------------------------------------
(* Properties of the aggregation *)

\* the SHAs of a commit sequence, in order
ShaSeq(commits) == [i \in 1 .. Len(commits) |-> commits[i].SHA]

ShaSet(commits) == {commits[i].SHA : i \in 1 .. Len(commits)}

\* the commits the platform reports for a branch since the cutoff of the call
Listed(branch) == {s \in reach[branch] : CommitDate(s) >= since}

\* the branches of the call whose listing succeeded and reports sha
ListedBy(sha) == {b \in okBranches : sha \in Listed(b)}

\* C1: the sequence built by the all-branches aggregation (GetCommitsFromAllBranches
\* and GetRepositoryCommits) never holds a SHA twice, and in the returned sequence a
\* commit reported by the fetched branches (by two or more of them in particular)
\* appears exactly once, unless its detail request failed in the detail variant.
C1_EachShaAtMostOnce ==
    /\ NoDup(ShaSeq(allCommits))
    /\ (pc = "done" /\ ~err) =>
          \A sha \in SHAs :
              (ListedBy(sha) # {} /\ sha \notin skipped)
                  => Count(ShaSeq(allCommits), sha) = 1

C1_Witness ==
    /\ pc = "done"
    /\ op = "ByDay"
    /\ ~err
    /\ \E sha \in SHAs :
          /\ Cardinality(ListedBy(sha)) = 2
          /\ Count(ShaSeq(allCommits), sha) = 1
          /\ Len(allCommits) > 1

\* C2: when every branch fetch succeeds, the SHAs returned by GetCommitsFromAllBranches
\* are the union of the per-branch commit sets since the cutoff, and every order of
\* processing the branches yields the same set.
C2_UnionAnyOrder ==
    (pc = "done" /\ op = "ByDay" /\ ~err /\ okBranches = ToSet(branches)) =>
        /\ ShaSet(allCommits) = UNION {Listed(b) : b \in ToSet(branches)}
        /\ \A p \in SeqPermutations(branches) :
              ShaSet(MergeBranches(p, since, <<>>, {})) = ShaSet(allCommits)

C2_Witness ==
    /\ pc = "done"
    /\ op = "ByDay"
    /\ ~err
    /\ okBranches = BranchNames
    /\ Listed("main") \ Listed("dev") # {}
    /\ Listed("dev") \ Listed("main") # {}
    /\ Listed("dev") \cap Listed("main") # {}

\* C6: the weekday-aware cutoff is local midnight, 3 days before today on a Monday and
\* 1 day before today on the other six weekdays, whatever the time of day of "now".
C6_WeekdayCutoff ==
    op = "ByDay" =>
        /\ since % HoursPerDay = 0
        /\ DayOf(now) - DayOf(since) = (IF Weekday(now) = Monday THEN 3 ELSE 1)
        /\ \A h \in 0 .. (HoursPerDay - 1) :
              CutoffByDay(DayOf(now) * HoursPerDay + h) = since

C6_Witness ==
    /\ op = "ByDay"
    /\ Weekday(now) = Monday
    /\ now % HoursPerDay # 0
    /\ since = (DayOf(now) - 3) * HoursPerDay

\* C7: for a known repository with zero branches, or whose branches all have zero
\* commits since the cutoff, the aggregation returns an empty sequence and no error.
C7_EmptyIsNotAnError ==
    (/\ pc = "done"
     /\ op = "ByDay"
     /\ RepoKnown(repoName)
     /\ ~listFailed
     /\ \A i \in 1 .. Len(branchOrder) : Listed(branchOrder[i]) = {})
        => (allCommits = <<>> /\ err = FALSE)

C7_Witness ==
    /\ pc = "done"
    /\ op = "ByDay"
    /\ RepoKnown(repoName)
    /\ ~listFailed
    /\ branchOrder = <<>>
    /\ reach["main"] # {}
    /\ err = FALSE

----------------------------------------------------------------------------
(* main.GitHub: the activity filter GetRecentlyUpdatedRepos *)

MaxRepos == 3            \* length of the stored repository list

StoredArr == "stored"          \* backing array of gh.repos
FirstResultArr == "first"      \* array allocated by the first filter call
SecondResultArr == "second"    \* array allocated by the second filter call

FilterBase == 10 * HoursPerDay
FilterNows == {FilterBase, FilterBase + HoursPerDay}
UpdateTimes ==
    {FilterBase - 10 * HoursPerDay, FilterBase - 7 * HoursPerDay,
     FilterBase - 2 * HoursPerDay, FilterBase - HoursPerDay, FilterBase - 1}
DaysBackValues == {0 - 1, 0, 1, 2, 7}

\* the repositories as loaded: ID is the position in the platform's answer
RepoLists ==
    UNION {[1 .. n -> UpdateTimes] : n \in 0 .. MaxRepos}

LoadedRepos(times) == [i \in 1 .. Len(times) |-> [ID |-> i, UpdatedAt |-> times[i]]]

\* the elements of a slice
Contents(h, sl) == IF sl.arr = "nil" THEN <<>> ELSE SubSeq(h[sl.arr], 1, sl.len)

\* append(sl, x): writes in place while the backing array has room, else allocates
\* (or grows) the array newId
AppendSlice(h, sl, x, newId) ==
    IF sl.arr # "nil" /\ sl.arr # newId /\ sl.len < Len(h[sl.arr])
    THEN [heap |-> [h EXCEPT ![sl.arr][sl.len + 1] = x],
          slice |-> [arr |-> sl.arr, len |-> sl.len + 1]]
    ELSE [heap |-> [h EXCEPT ![newId] = Append(Contents(h, sl), x)],
          slice |-> [arr |-> newId, len |-> sl.len + 1]]

\* mutant of After: "not before", which keeps a repository updated exactly at the cutoff
NotBefore(t, u) == t >= u

\* time.Time.After
After(t, u) == t > u

\* "for _, repo := range gh.repos": elements i..n of the stored slice gh
RECURSIVE FilterLoop(_, _, _, _, _, _, _)
FilterLoop(h, sl, gh, i, n, cutoffDate, newId) ==
    IF i > n THEN [heap |-> h, slice |-> sl]
    ELSE LET repo == h[gh.arr][i]
         IN IF After(repo.UpdatedAt, cutoffDate)
            THEN LET a == AppendSlice(h, sl, repo, newId)
                 IN FilterLoop(a.heap, a.slice, gh, i + 1, n, cutoffDate, newId)
            ELSE FilterLoop(h, sl, gh, i + 1, n, cutoffDate, newId)

\* mutant of RecentlyUpdatedRepos: the loop stops one element early
RecentlyUpdatedReposSkipsLast(h, gh, d, t, newId) ==
    IF d <= 0 THEN [heap |-> h, slice |-> gh]
    ELSE FilterLoop(h, NilSlice, gh, 1, gh.len - 1, AddDays(t, 0 - d), newId)

\* gh.GetRecentlyUpdatedRepos(d) at time t, for a client whose repos is the slice gh
RecentlyUpdatedRepos(h, gh, d, t, newId) ==
    IF d <= 0 THEN [heap |-> h, slice |-> gh]
    ELSE FilterLoop(h, NilSlice, gh, 1, gh.len, AddDays(t, 0 - d), newId)

\* a call of gh.GetRecentlyUpdatedRepos(d)
GetRecentlyUpdatedRepos ==
    /\ fpc = "idle"
    /\ \E d \in DaysBackValues :
        LET r == RecentlyUpdatedRepos(heap, ghRepos, d, now, FirstResultArr)
        IN /\ heap' = r.heap
           /\ recent' = r.slice
           /\ daysBack' = d
    /\ before' = Contents(heap, ghRepos)
    /\ callNow' = now
    /\ fpc' = "called"
    /\ UNCHANGED <<now, ghRepos, recent2, callNow2, aggVars, llmVars, startVars, listVars, reportVars,
                   configVars, tuiVars>>

\* time passes between two calls
ClockAdvances ==
    /\ fpc = "called"
    /\ now + HoursPerDay \in FilterNows
    /\ now' = now + HoursPerDay
    /\ UNCHANGED <<aggVars, filterVars, llmVars, startVars, listVars, reportVars,
                   configVars, tuiVars>>

\* the filter applied, with the same daysBack, by a client whose stored list is the
\* output of the first call
ReapplyFilter ==
    /\ fpc = "called"
    /\ LET r == RecentlyUpdatedRepos(heap, recent, daysBack, now, SecondResultArr)
       IN /\ heap' = r.heap
          /\ recent2' = r.slice
    /\ callNow2' = now
    /\ fpc' = "reapplied"
    /\ UNCHANGED <<now, ghRepos, daysBack, recent, before, callNow, aggVars, llmVars, startVars, listVars, reportVars,
                   configVars, tuiVars>>

\* no aggregation runs in the runs of the filter
AggUnused ==
    /\ branchOrder = <<>>
    /\ reach = [b \in BranchNames |-> {}]
    /\ repos = <<>>
    /\ AggIdle

\* NewGithub: gh.repos holds the loaded repositories
InitFilter ==
    /\ now \in FilterNows
    /\ \E times \in RepoLists :
        /\ heap = [a \in {StoredArr, FirstResultArr, SecondResultArr} |->
                     IF a = StoredArr THEN LoadedRepos(times) ELSE <<>>]
        /\ ghRepos = [arr |-> StoredArr, len |-> Len(times)]
    /\ FilterIdle
    /\ AggUnused
    /\ LLMIdle
    /\ ConfigUnused
    /\ TuiUnused
    /\ StartUnused
    /\ ListUnused
    /\ ReportUnused

NextFilter ==
    \/ GetRecentlyUpdatedRepos
    \/ ClockAdvances
    \/ ReapplyFilter

SpecFilter == InitFilter /\ [][NextFilter]_vars

----------------------------------------------------------------------------
(* Properties of the activity filter *)

\* the cutoff of the first call: now minus daysBack days
Cutoff == AddDays(callNow, 0 - daysBack)

\* out holds exactly the elements of list updated strictly after c, in list order
ExactlyAfter(out, list, c) ==
    /\ \A j \in 1 .. Len(out) : out[j] \in ToSet(list) /\ out[j].UpdatedAt > c
    /\ \A i \in 1 .. Len(list) : list[i].UpdatedAt > c => list[i] \in ToSet(out)
    /\ \A j, k \in 1 .. Len(out) : j < k => out[j].ID < out[k].ID

C4_Idempotent ==
    (fpc = "reapplied" /\ callNow2 = callNow) =>
        Contents(heap, recent2) = Contents(heap, recent)

C4_Witness ==
    /\ fpc = "reapplied"
    /\ callNow2 = callNow
    /\ daysBack = 2
    /\ Len(Contents(heap, recent2)) = 2
    /\ Len(before) = 3

\* C5: for every daysBack the call leaves the stored list unchanged and returns a new
\* sequence, not the stored list itself.
C5_NonDestructiveNewSequence ==
    fpc = "called" =>
        /\ Contents(heap, ghRepos) = before
        /\ recent.arr # ghRepos.arr

----------------------------------------------------------------------------
(* main.LLMService.GenerateSummary and llm.Gemini.GenerateContent *)

MaxSummaryCommits == 3   \* length of the commit sequence handed to GenerateSummary
MaxCandidates == 2       \* candidates in a response
MaxParts == 2            \* parts in a candidate's content

StatusOK == 200          \* http.StatusOK

NoCommitsText == "No commits found in the specified time period."
FallbackText == "Unable to generate summary at this time."

SummaryRepoNames == {"app", "lib"}
Texts == {"", "Summary text"}
Statuses == {StatusOK, 500}

\* the commit sequences handed to GenerateSummary: the SHA is the position
CommitInputs ==
    UNION {{[i \in 1 .. n |-> [SHA |-> i, RepoName |-> names[i]]] :
              names \in [1 .. n -> SummaryRepoNames]} : n \in 0 .. MaxSummaryCommits}

\* a candidate is the sequence of the texts of its content's parts
Candidates == UNION {[1 .. n -> Texts] : n \in 0 .. MaxParts}
CandidateLists == UNION {[1 .. n -> Candidates] : n \in 0 .. MaxCandidates}

\* what the endpoint can answer to one request
Responses ==
    {[kind |-> k, status |-> 0, candidates |-> <<>>] : k \in {"transport", "read"}}
    \cup {[kind |-> "undecodable", status |-> st, candidates |-> <<>>] : st \in Statuses}
    \cup {[kind |-> "decoded", status |-> st, candidates |-> c] :
            st \in Statuses, c \in CandidateLists}

\* mutant of GroupOf: every commit is filed under every repository
GroupOfAll(cs, name) == cs

\* repoCommits[name]: the commits of one repository, in input order
GroupOf(cs, name) == SelectSeq(cs, LAMBDA c : c.RepoName = name)

\* the lines written for one repository: header, one line per commit, blank line
GroupLines(cs, name) ==
    <<[kind |-> "header", repo |-> name, sha |-> 0]>>
    \o [i \in 1 .. Len(GroupOf(cs, name)) |->
           [kind |-> "commit", repo |-> name, sha |-> GroupOf(cs, name)[i].SHA]]
    \o <<[kind |-> "blank", repo |-> name, sha |-> 0]>>

\* "for repoName, repoCommits := range repoCommits": order is the map iteration order
RECURSIVE DigestLines(_, _)
DigestLines(cs, order) ==
    IF order = <<>> THEN <<>>
    ELSE GroupLines(cs, Head(order)) \o DigestLines(cs, Tail(order))

\* mutant of SummaryFromResponse: the first part's text, or "" when there is none
SummaryTextOrEmpty(cands) ==
    IF Len(cands) > 0 /\ Len(cands[1]) > 0 THEN cands[1][1] ELSE ""

\* the last statements of GenerateSummary: the first candidate's first part, or the
\* fallback
SummaryFromResponse(cands) ==
    IF Len(cands) > 0 /\ Len(cands[1]) > 0 THEN cands[1][1] ELSE FallbackText

\* mutant of SummaryRequest: a failed request is issued a second time
SummaryRequestRetries(resp) ==
    IF resp.kind \in {"transport", "read", "undecodable"}
    THEN [summary |-> "", err |-> TRUE, requests |-> 2]
    ELSE [summary |-> SummaryFromResponse(resp.candidates), err |-> FALSE, requests |-> 1]

\* the request of GenerateSummary and the handling of its answer; building the request
\* (json.Marshal of the prompt, http.NewRequest on the endpoint's URL) does not fail
SummaryRequest(resp) ==
    IF resp.kind \in {"transport", "read", "undecodable"}
    THEN [summary |-> "", err |-> TRUE, requests |-> 1]
    ELSE [summary |-> SummaryFromResponse(resp.candidates), err |-> FALSE, requests |-> 1]

\* mutant of SummaryResult: the test for an empty commit sequence is missing
SummaryResultAlwaysAsks(cs, resp) == SummaryRequest(resp)

\* GenerateSummary(cs) when the endpoint would answer resp
SummaryResult(cs, resp) ==
    IF Len(cs) = 0
    THEN [summary |-> NoCommitsText, err |-> FALSE, requests |-> 0]
    ELSE SummaryRequest(resp)

\* GenerateContent(prompt) when the endpoint answers resp
ContentResult(resp) ==
    IF resp.kind \in {"transport", "read"} THEN [summary |-> "", err |-> TRUE]
    ELSE IF resp.status # StatusOK THEN [summary |-> "", err |-> TRUE]
    ELSE IF resp.kind = "undecodable" THEN [summary |-> "", err |-> TRUE]
    ELSE IF Len(resp.candidates) = 0 THEN [summary |-> "", err |-> TRUE]
    ELSE IF Len(resp.candidates[1]) = 0 THEN [summary |-> "", err |-> TRUE]
    ELSE [summary |-> resp.candidates[1][1], err |-> FALSE]

\* a call of llm.GenerateSummary(cs)
GenerateSummary ==
    /\ lpc = "idle"
    /\ \E cs \in CommitInputs, resp \in Responses :
       \E order \in SeqPermutations(SetToSeq({c.RepoName : c \in ToSet(cs)})) :
        LET r == SummaryResult(cs, resp)
        IN /\ llmCommits' = cs
           /\ response' = IF r.requests = 0 THEN [kind |-> "none"] ELSE resp
           /\ prompt' = IF Len(cs) = 0 THEN <<>> ELSE DigestLines(cs, order)
           /\ summary' = r.summary
           /\ lerr' = r.err
           /\ requests' = requests + r.requests
    /\ lop' = "GenerateSummary"
    /\ lpc' = "done"
    /\ UNCHANGED <<now, aggVars, filterVars, startVars, listVars, reportVars,
                   configVars, tuiVars>>

\* a call of gemini.GenerateContent(prompt)
GenerateContent ==
    /\ lpc = "idle"
    /\ \E resp \in Responses :
        /\ response' = resp
        /\ summary' = ContentResult(resp).summary
        /\ lerr' = ContentResult(resp).err
    /\ requests' = requests + 1
    /\ lop' = "GenerateContent"
    /\ lpc' = "done"
    /\ UNCHANGED <<now, aggVars, filterVars, startVars, listVars, reportVars, llmCommits, prompt,
                   configVars, tuiVars>>

InitLLM ==
    /\ now = 0
    /\ AggUnused
    /\ FilterUnused
    /\ LLMIdle
    /\ ConfigUnused
    /\ TuiUnused
    /\ StartUnused
    /\ ListUnused
    /\ ReportUnused

NextLLM ==
    \/ GenerateSummary
    \/ GenerateContent

SpecLLM == InitLLM /\ [][NextLLM]_vars

----------------------------------------------------------------------------
(* Properties of the summary generation *)

\* the response was decoded and holds no candidate
ZeroCandidates == response.kind = "decoded" /\ Len(response.candidates) = 0

\* the response was decoded and its first candidate has no text
EmptyFirstCandidate ==
    /\ response.kind = "decoded"
    /\ Len(response.candidates) > 0
    /\ \/ Len(response.candidates[1]) = 0
       \/ response.candidates[1][1] = ""

\* C8: GenerateSummary of an empty commit sequence returns the "no commits" text with
\* a nil error and issues no request to the generative endpoint.
C8_EmptyInputNoRequest ==
    (lpc = "done" /\ lop = "GenerateSummary" /\ llmCommits = <<>>) =>
        /\ summary = NoCommitsText
        /\ lerr = FALSE
        /\ requests = 0

C8_Witness ==
    /\ lpc = "done"
    /\ lop = "GenerateSummary"
    /\ llmCommits = <<>>
    /\ summary = NoCommitsText

C10_EmptyTextFallback ==
    (lpc = "done" /\ lop = "GenerateSummary" /\ Len(llmCommits) > 0
        /\ EmptyFirstCandidate)
        => (summary = FallbackText /\ lerr = FALSE)

\* the request of the call failed in transport, in reading the body or in decoding it
RequestFailed == response.kind \in {"transport", "read", "undecodable"}

----------------------------------------------------------------------------
(* Program start: func main, Config.Validate, NewGithub, LoadReposFromUser *)

MaxTuiRequests == 2      \* requests issued by the running TUI

PlatformDefaultPerPage == 30   \* page size of a request that names no per_page

Account == "RafaZeero"
TokenRequired == "GITHUB_ACCESS_TOKEN environment variable is required"
KeyRequired == "GEMINI_API_KEY environment variable is required"
UsernameRequired == "GITHUB_USERNAME environment variable is required"

Environments ==
    [GITHUB_ACCESS_TOKEN : {"", "token"}, GEMINI_API_KEY : {"", "key"},
     GITHUB_USERNAME : {"", Account}]

\* lengths of the platform's listings: none, one, more than a default page, a full
\* page, a full page and one, two full pages
ListLengths == {0, 1, PlatformDefaultPerPage + 1, perPage, perPage + 1, 2 * perPage}

\* the platform's listing of n repositories; every k-th one belongs to an organization
PlatformRepoList(n, k) ==
    [i \in 1 .. n |->
        [ID |-> i,
         FullName |-> <<IF k # 0 /\ i % k = 0 THEN "some-org" ELSE Account, i>>]]

\* strings.Split(repo.FullName, "/")[0]
OwnerOf(repo) == repo.FullName[1]

OwnedBy(list, username) == SelectSeq(list, LAMBDA r : OwnerOf(r) = username)

\* LoadConfig: the fields of Config that Validate reads
LoadConfig(e) ==
    [GitHubToken |-> e.GITHUB_ACCESS_TOKEN, GeminiKey |-> e.GEMINI_API_KEY,
     Username |-> e.GITHUB_USERNAME]

\* mutant of Validate: the username is checked before the generation key
ValidateUsernameFirst(c) ==
    IF c.GitHubToken = "" THEN TokenRequired
    ELSE IF c.Username = "" THEN UsernameRequired
    ELSE IF c.GeminiKey = "" THEN KeyRequired
    ELSE ""

\* Config.Validate: the returned error, "" is nil
Validate(c) ==
    IF c.GitHubToken = "" THEN TokenRequired
    ELSE IF c.GeminiKey = "" THEN KeyRequired
    ELSE IF c.Username = "" THEN UsernameRequired
    ELSE ""

\* the GitHubOptions main hands to NewGithub
Options(prog, e) ==
    IF prog = "summary"
    THEN [APIKey |-> LoadConfig(e).GitHubToken, Username |-> LoadConfig(e).Username]
    ELSE [APIKey |-> e.GITHUB_ACCESS_TOKEN, Username |-> Account]

\* mutant of FatalOr: the failure is logged and LoadReposFromUser returns
ReturnOr(failed, next) == IF failed THEN "constructed" ELSE next

\* "if err != nil { log.Fatal(...) }": the process exits, else main goes on to next
FatalOr(failed, next) == IF failed THEN "exited" ELSE next

\* the first page of a request that names no page and no per_page
DefaultPage(list) == SubSeq(list, 1, Min(PlatformDefaultPerPage, Len(list)))

\* main of the summary program: LoadConfig, then "if err := config.Validate()"
MainValidate ==
    /\ spc = "start"
    /\ program = "summary"
    /\ validateErr' = Validate(LoadConfig(env))
    /\ spc' = FatalOr(Validate(LoadConfig(env)) # "", "validated")
    /\ UNCHANGED <<now, aggVars, filterVars, llmVars, listVars, reportVars, program, env, platformRepos, ghUser,
                   loadPage, allRepos, loadFailed, netlog,
                   configVars, tuiVars>>

\* NewGithub up to the call of gh.LoadReposFromUser()
NewGithub ==
    /\ \/ spc = "validated"
       \/ spc = "start" /\ program = "viewer"
    /\ LET opts == Options(program, env)
           empty == opts.APIKey = "" \/ opts.Username = ""
       IN /\ spc' = FatalOr(empty, "loading")
          /\ ghUser' = IF empty THEN ghUser ELSE opts.Username
          /\ loadPage' = IF empty THEN loadPage ELSE 1
    /\ repos' = <<>>
    /\ allRepos' = <<>>
    /\ UNCHANGED <<now, aggCallVars, filterVars, llmVars, listVars, reportVars, program, env, platformRepos,
                   validateErr, loadFailed, netlog,
                   configVars, tuiVars>>

\* LoadReposFromUser of package main: one request, no page parameters (the platform
\* answers with its first page)
LoadReposFromUser ==
    /\ spc = "loading"
    /\ program = "summary"
    /\ netlog' = Append(netlog, [kind |-> "repos", page |-> 1])
    /\ \E failed \in BOOLEAN :
        /\ loadFailed' = (loadFailed \/ failed)
        /\ spc' = FatalOr(failed, "constructed")
        /\ repos' = IF failed THEN repos
                    ELSE repos \o DefaultPage(OwnedBy(platformRepos, ghUser))
    /\ UNCHANGED <<now, aggCallVars, filterVars, llmVars, listVars, reportVars, program, env, platformRepos,
                   ghUser, validateErr, loadPage, allRepos,
                   configVars, tuiVars>>

\* LoadReposFromUser of package github: one iteration of the page loop
LoadReposFromUserPage ==
    /\ spc = "loading"
    /\ program = "viewer"
    /\ netlog' = Append(netlog, [kind |-> "repos", page |-> loadPage])
    /\ \E failed \in BOOLEAN :
        LET items == PageOf(platformRepos, loadPage)
            kept == IF Len(items) = 0 THEN allRepos
                    ELSE allRepos \o OwnedBy(items, ghUser)
            last == Len(items) = 0 \/ Len(items) < perPage
        IN /\ loadFailed' = (loadFailed \/ failed)
           /\ spc' = FatalOr(failed, IF last THEN "constructed" ELSE "loading")
           /\ allRepos' = IF failed THEN allRepos ELSE kept
           /\ loadPage' = IF failed \/ last THEN loadPage ELSE loadPage + 1
           /\ repos' = IF ~failed /\ last THEN kept ELSE repos
    /\ UNCHANGED <<now, aggCallVars, filterVars, llmVars, listVars, reportVars, program, env, platformRepos,
                   ghUser, validateErr,
                   configVars, tuiVars>>

\* main after NewGithub has returned: tea.NewProgram(m).Run()
RunTUI ==
    /\ spc = "constructed"
    /\ spc' = "tui"
    /\ UNCHANGED <<now, aggVars, filterVars, llmVars, listVars, reportVars, program, env, platformRepos, ghUser,
                   validateErr, loadPage, allRepos, loadFailed, netlog,
                   configVars, tuiVars>>

\* the requests a command of the TUI issues
TuiRequestKinds(prog) ==
    IF prog = "summary" THEN {"commits", "generation"} ELSE {"branches", "commits"}

TuiRequests == SelectSeq(netlog, LAMBDA r : r.kind # "repos")

\* the running TUI issues a request (LoadCommits, GenerateSummary, FetchCommits)
TuiRequest ==
    /\ spc = "tui"
    /\ Len(TuiRequests) < MaxTuiRequests
    /\ \E kind \in TuiRequestKinds(program) :
        netlog' = Append(netlog, [kind |-> kind, page |-> 0])
    /\ UNCHANGED <<now, aggVars, filterVars, llmVars, listVars, reportVars, program, env, platformRepos, ghUser,
                   spc, validateErr, loadPage, allRepos, loadFailed,
                   configVars, tuiVars>>

InitStart ==
    /\ now = 0
    /\ AggUnused
    /\ FilterUnused
    /\ LLMIdle
    /\ ConfigUnused
    /\ TuiUnused
    /\ program \in {"summary", "viewer"}
    /\ env \in Environments
    /\ platformRepos \in {PlatformRepoList(n, k) : n \in ListLengths, k \in {0, 3}}
    /\ ghUser = ""
    /\ spc = "start"
    /\ validateErr = ""
    /\ loadPage = 0
    /\ allRepos = <<>>
    /\ loadFailed = FALSE
    /\ netlog = <<>>
    /\ ListUnused
    /\ ReportUnused

NextStart ==
    \/ MainValidate
    \/ NewGithub
    \/ LoadReposFromUser
    \/ LoadReposFromUserPage
    \/ RunTUI
    \/ TuiRequest

SpecStart == InitStart /\ [][NextStart]_vars

----------------------------------------------------------------------------
(* Properties of the program start *)

\* NewGithub has returned a client
ClientReturned == spc \in {"constructed", "tui"}

\* the pages a full listing of n items is fetched with: 1, 2, ... up to the first page
\* that is short or empty
PagesFor(n) == [i \in 1 .. PagesOf(n) |-> i]

RepoPagesRequested ==
    [i \in 1 .. Len(SelectSeq(netlog, LAMBDA r : r.kind = "repos")) |->
        SelectSeq(netlog, LAMBDA r : r.kind = "repos")[i].page]

\* C12: the repository load stores every repository the platform holds for the user,
\* however many: it requests pages 1, 2, ... until a page is short or empty, and the
\* stored list is the concatenation, in page order, of the owner-matching items.
C12_AllRepositoriesLoaded ==
    ClientReturned =>
        /\ repos = OwnedBy(platformRepos, ghUser)
        /\ RepoPagesRequested = PagesFor(Len(platformRepos))

\* the same for the paginated load of package github alone
PagedLoadStoresAll ==
    (ClientReturned /\ program = "viewer") =>
        /\ repos = OwnedBy(platformRepos, ghUser)
        /\ RepoPagesRequested = PagesFor(Len(platformRepos))

PagedLoadWitness ==
    /\ ClientReturned
    /\ program = "viewer"
    /\ Len(platformRepos) = 2 * perPage
    /\ Len(repos) < Len(platformRepos)
    /\ RepoPagesRequested = <<1, 2, 3>>

\* C16: when a request of the initial repository load fails (request, body read or
\* decode, on any page), the process exits: NewGithub returns no client, the TUI never
\* starts, and the failed request is the last request ever issued (no commit, branch or
\* generation request follows).
C16_LoadFailureAborts ==
    loadFailed =>
        /\ spc = "exited"
        /\ ~ClientReturned
        /\ TuiRequests = <<>>
        /\ netlog # <<>>
        /\ netlog[Len(netlog)].kind = "repos"

\* the load fails on its second page
C16_Witness ==
    /\ loadFailed
    /\ program = "viewer"
    /\ RepoPagesRequested = <<1, 2>>
    /\ allRepos # <<>>
    /\ spc = "exited"

\* a value the run needs is missing from the environment
ConfigMissing ==
    \/ env.GITHUB_ACCESS_TOKEN = ""
    \/ env.GEMINI_API_KEY = ""
    \/ env.GITHUB_USERNAME = ""

\* C17: with the access token, the generation key or the username missing, main of the
\* summary program exits on the error of Validate (token checked first, then generation
\* key, then username) before NewGithub is called and before any request is issued.
C17_MissingConfigAborts ==
    (program = "summary" /\ spc # "start") =>
        /\ ConfigMissing =>
              /\ spc = "exited"
              /\ netlog = <<>>
              /\ ghUser = ""
              /\ validateErr = (IF env.GITHUB_ACCESS_TOKEN = "" THEN TokenRequired
                                ELSE IF env.GEMINI_API_KEY = "" THEN KeyRequired
                                ELSE UsernameRequired)
        /\ ~ConfigMissing => validateErr = ""

\* token present, generation key and username both missing: the key is reported
C17_Witness ==
    /\ program = "summary"
    /\ spc = "exited"
    /\ env.GITHUB_ACCESS_TOKEN # ""
    /\ env.GEMINI_API_KEY = ""
    /\ env.GITHUB_USERNAME = ""
    /\ validateErr = KeyRequired
    /\ netlog = <<>>

----------------------------------------------------------------------------
(* Branch listing of repositories with many branches *)

\* the platform's listing of n branches, named 1 .. n
PlatformBranchList(n) == [i \in 1 .. n |-> i]

\* the branch listing step of both aggregation variants, for a repository with any
\* number of branches; the branches hold no commits
InitBranches ==
    /\ now \in Nows
    /\ branchOrder \in {PlatformBranchList(n) : n \in ListLengths}
    /\ reach = [b \in ToSet(branchOrder) |-> {}]
    /\ repos = StoredRepos
    /\ AggIdle
    /\ FilterUnused
    /\ LLMIdle
    /\ ConfigUnused
    /\ TuiUnused
    /\ StartUnused
    /\ ListUnused
    /\ ReportUnused

NextBranches ==
    \/ GetCommitsForRepoByDay
    \/ GetRepositoryCommits

SpecBranches == InitBranches /\ [][NextBranches]_vars

\* C13: the branch listing of the aggregation returns every branch of the repository,
\* for any number of branches (more than one page of 100 included), so that the branch
\* loop visits every branch.
C13_EveryBranchListed ==
    (pc # "idle" /\ ~err) => branches = branchOrder

\* the same for the paginated GetBranchesForRepo alone
RestListsEveryBranch ==
    (pc # "idle" /\ op = "ByDay" /\ ~err) => branches = branchOrder

RestListsEveryBranchWitness ==
    /\ pc = "loop"
    /\ op = "ByDay"
    /\ Len(branches) = 2 * perPage

----------------------------------------------------------------------------
(* Commit listing: github.GitHub.GetCommitsForRepoSinceFromBranch (paginated) and *)
(* main.GitHub.GetLatestCommits (one request per selected repository)            *)

MaxSelected == 2         \* repositories selected for GetLatestCommits

ListNow == 10 * perPage  \* time.Now() of the listing calls, in hours
SinceCutoff == ListNow - perPage - (perPage \div 2)
ListDaysBack == {1, 7}
DefaultBranch == "main"

\* the k-th newest commit of a branch was authored k hours before ListNow
CommitList(repo, branch, n) ==
    [k \in 1 .. n |->
        [SHA |-> [short |-> <<repo, branch, k>>, rest |-> "0123"], Date |-> ListNow - k]]

\* the platform's commits when the default branch of "app" holds n commits
CommitStore(n) ==
    [r \in {"app", "lib"} |->
        [b \in {"main", "dev"} |->
            IF r = "app" /\ b = "main" THEN CommitList(r, b, n)
            ELSE IF r = "app" THEN CommitList(r, b, perPage + 1)
            ELSE IF b = "main" THEN CommitList(r, b, 2)
            ELSE <<>>]]

\* a query parameter of a request: <<>> when the URL does not carry it
Absent == <<>>
Param(v) == <<v>>

\* the commits the platform reports for a repository, a cutoff (0: none) and a branch
\* ("": the default branch)
Reported(name, s, b) ==
    SelectSeq(platformCommits[name][IF b = "" THEN DefaultBranch ELSE b],
              LAMBDA c : s = 0 \/ c.Date >= s)

\* GET /repos/{repo}/commits: the platform's answer to one request
PlatformAnswer(req) ==
    LET all == Reported(req.repo,
                        IF req.since = Absent THEN 0 ELSE req.since[1],
                        IF req.sha = Absent THEN "" ELSE req.sha[1])
        size == IF req.per_page = Absent THEN PlatformDefaultPerPage ELSE req.per_page[1]
        pg == IF req.page = Absent THEN 1 ELSE req.page[1]
    IN SubSeq(all, (pg - 1) * size + 1, Min(pg * size, Len(all)))

\* since.IsZero()
IsZero(t) == t = 0

\* the URL built by one iteration of GetCommitsForRepoSinceFromBranch
CommitsURL(name, pg, s, b) ==
    [repo |-> name, page |-> Param(pg), per_page |-> Param(perPage),
     since |-> IF IsZero(s) THEN Absent ELSE Param(s),
     sha |-> IF b = "" THEN Absent ELSE Param(b)]

\* GetCommitsForRepoSinceFromBranch up to the page loop: the lookup in gh.repos
\* (GetCommitsForRepo and GetCommitsForRepoSince call it with the zero time and "")
CallSinceFromBranch ==
    /\ cpc = "idle"
    /\ \E name \in RepoNames, s \in {0, SinceCutoff}, b \in {"", "dev"} :
        /\ nameArg' = name
        /\ sinceArg' = s
        /\ branchArg' = b
        /\ cerr' = ~RepoKnown(name)
        /\ cpc' = IF RepoKnown(name) THEN "loop" ELSE "done"
    /\ cop' = "SinceFromBranch"
    /\ cpage' = 1
    /\ listed' = <<>>
    /\ UNCHANGED <<now, aggVars, filterVars, llmVars, startVars, reportVars,
                   platformCommits, selection, lidx, okRepos, reqLog,
                   configVars, tuiVars>>

\* one iteration of the page loop of GetCommitsForRepoSinceFromBranch
SinceFromBranchPage ==
    /\ cpc = "loop"
    /\ cop = "SinceFromBranch"
    /\ LET req == CommitsURL(nameArg, cpage, sinceArg, branchArg)
           items == PlatformAnswer(req)
           last == Len(items) = 0 \/ Len(items) < perPage
       IN /\ reqLog' = Append(reqLog, req)
          /\ \E failed \in BOOLEAN :
              /\ cerr' = failed
              /\ listed' = IF failed THEN <<>> ELSE listed \o items
              /\ cpc' = IF failed \/ last THEN "done" ELSE "loop"
              /\ cpage' = IF failed \/ last THEN cpage ELSE cpage + 1
    /\ UNCHANGED <<now, aggVars, filterVars, llmVars, startVars, reportVars,
                   platformCommits, cop, nameArg, sinceArg, branchArg, selection, lidx,
                   okRepos,
                   configVars, tuiVars>>

\* Repo.String() of package main: "name (language) - Updated: date", as the name and
\* the rest of the label
Choice(name) == <<name, " (Go) - Updated: 2024-01-01">>

\* strings.Split(repoName, " (")[0]
NameOfChoice(label) == label[1]

\* the selections handed to GetLatestCommits: "gone" is not on the platform any more
Selections ==
    {sel \in Arrangements({Choice("app"), Choice("lib"), Choice("gone")}) :
        Len(sel) <= MaxSelected}

\* the URL built by one iteration of GetLatestCommits
LatestURL(name, s) ==
    [repo |-> name, page |-> Absent, per_page |-> Absent, since |-> Param(s),
     sha |-> Absent]

\* the Commit built from one CommitResponse: SHA is c.SHA[:8]
ToCommit(c, name) == [SHA |-> c.SHA.short, Date |-> c.Date, RepoName |-> name]

ToCommits(items, name) == [i \in 1 .. Len(items) |-> ToCommit(items[i], name)]

\* mutant of LatestAfter: a failed repository discards what was collected before it
LatestAfterReset(failed, acc, items) == IF failed THEN <<>> ELSE acc \o items

\* allCommits after one repository: "continue" on a failure, else the appended commits
LatestAfter(failed, acc, items) == IF failed THEN acc ELSE acc \o items

\* GetLatestCommits up to the loop over repoNames
CallLatestCommits ==
    /\ cpc = "idle"
    /\ \E sel \in Selections, d \in ListDaysBack :
        /\ selection' = sel
        /\ sinceArg' = AddDays(now, 0 - d)
        /\ cpc' = IF sel = <<>> THEN "done" ELSE "loop"
    /\ cop' = "Latest"
    /\ lidx' = 0
    /\ listed' = <<>>
    /\ cerr' = FALSE
    /\ UNCHANGED <<now, aggVars, filterVars, llmVars, startVars, reportVars,
                   platformCommits, nameArg, branchArg, cpage, okRepos, reqLog,
                   configVars, tuiVars>>

\* one iteration of "for _, repoName := range repoNames" in GetLatestCommits; the
\* request for a repository the platform does not know is answered with an error body,
\* which does not decode
LatestCommitsStep ==
    /\ cpc = "loop"
    /\ cop = "Latest"
    /\ lidx < Len(selection)
    /\ LET name == NameOfChoice(selection[lidx + 1])
           req == LatestURL(name, sinceArg)
           known == name \in DOMAIN platformCommits
       IN /\ reqLog' = Append(reqLog, req)
          /\ \E failed \in (IF known THEN BOOLEAN ELSE {TRUE}) :
              /\ listed' = LatestAfter(failed, listed,
                               IF known THEN ToCommits(PlatformAnswer(req), name) ELSE <<>>)
              /\ okRepos' = IF failed THEN okRepos ELSE okRepos \cup {lidx + 1}
    /\ lidx' = lidx + 1
    /\ cpc' = IF lidx + 1 = Len(selection) THEN "done" ELSE "loop"
    /\ UNCHANGED <<now, aggVars, filterVars, llmVars, startVars, reportVars,
                   platformCommits, cop, nameArg, sinceArg, branchArg, selection, cpage,
                   cerr,
                   configVars, tuiVars>>

ListIdle ==
    /\ cpc = "idle"
    /\ cop = "none"
    /\ nameArg = ""
    /\ sinceArg = 0
    /\ branchArg = ""
    /\ selection = <<>>
    /\ cpage = 0
    /\ lidx = 0
    /\ listed = <<>>
    /\ cerr = FALSE
    /\ okRepos = {}
    /\ reqLog = <<>>

InitList ==
    /\ now = ListNow
    /\ branchOrder = <<>>
    /\ reach = [b \in BranchNames |-> {}]
    /\ repos = StoredRepos
    /\ AggIdle
    /\ FilterUnused
    /\ LLMIdle
    /\ ConfigUnused
    /\ TuiUnused
    /\ StartUnused
    /\ ReportUnused
    /\ platformCommits \in {CommitStore(n) : n \in ListLengths}
    /\ ListIdle

NextList ==
    \/ CallSinceFromBranch
    \/ SinceFromBranchPage
    \/ CallLatestCommits
    \/ LatestCommitsStep

SpecList == InitList /\ [][NextList]_vars

----------------------------------------------------------------------------
(* Properties of the commit listing *)

\* every request of the call carries exactly the parameters that were given
ParametersAsGiven ==
    \A i \in 1 .. Len(reqLog) :
        /\ reqLog[i].since = (IF IsZero(sinceArg) THEN Absent ELSE Param(sinceArg))
        /\ reqLog[i].sha = (IF branchArg = "" THEN Absent ELSE Param(branchArg))

\* the commits of the selected repositories whose request succeeded, in selection order
RECURSIVE ReportedForSelection(_)
ReportedForSelection(i) ==
    IF i = 0 THEN <<>>
    ELSE ReportedForSelection(i - 1) \o
            (IF i \in okRepos
             THEN ToCommits(Reported(NameOfChoice(selection[i]), sinceArg, ""),
                            NameOfChoice(selection[i]))
             ELSE <<>>)

\* C14: a commit listing returns, across all pages and in page order, every commit the
\* platform reports for the request, and every request carries since exactly when a
\* non-zero cutoff is given and the branch selector exactly when a branch is given.
C14_EveryReportedCommit ==
    (cpc = "done" /\ ~cerr) =>
        /\ ParametersAsGiven
        /\ cop = "SinceFromBranch" => listed = Reported(nameArg, sinceArg, branchArg)
        /\ cop = "Latest" => listed = ReportedForSelection(Len(selection))

\* the same for the paginated GetCommitsForRepoSinceFromBranch alone
SinceFromBranchListsAll ==
    (cpc = "done" /\ cop = "SinceFromBranch" /\ ~cerr) =>
        /\ ParametersAsGiven
        /\ listed = Reported(nameArg, sinceArg, branchArg)
        /\ Len(reqLog) = PagesOf(Len(listed))
        /\ \A i \in 1 .. Len(reqLog) : reqLog[i].page = Param(i)

SinceFromBranchWitness ==
    /\ cpc = "done"
    /\ cop = "SinceFromBranch"
    /\ ~cerr
    /\ sinceArg # 0
    /\ branchArg = ""
    /\ Len(platformCommits["app"]["main"]) = 2 * perPage
    /\ Len(listed) = perPage + (perPage \div 2)
    /\ Len(reqLog) = 2

----------------------------------------------------------------------------
(* GetCommitsFromAllBranches over branches whose commit listings span several pages *)

\* the commits reachable from the two branches: short and long listings that overlap
LongReach ==
    {[b \in BranchNames |-> IF b = "main" THEN m ELSE d] :
        m \in {1 .. 2, 1 .. (perPage + 1)},
        d \in {{}, 1 .. perPage, (perPage \div 2) .. (perPage + (perPage \div 2) + 1)}}

InitPartial ==
    /\ now \in {t \in Nows : DayOf(t) = FirstDay}
    /\ branchOrder \in Arrangements(BranchNames)
    /\ reach \in LongReach
    /\ repos = StoredRepos
    /\ AggIdle
    /\ FilterUnused
    /\ LLMIdle
    /\ ConfigUnused
    /\ TuiUnused
    /\ StartUnused
    /\ ListUnused
    /\ ReportUnused

SpecPartial == InitPartial /\ [][Next]_vars

\* the full listings of the branches of brs whose fetch succeeded, one after the other
RECURSIVE ListingsOfFetched(_)
ListingsOfFetched(brs) ==
    IF brs = <<>> THEN <<>>
    ELSE (IF Head(brs) \in okBranches THEN PlatformCommits(Head(brs), since) ELSE <<>>)
            \o ListingsOfFetched(Tail(brs))

\* C15: when the commit fetch of some branches fails (on any page), the call of
\* GetCommitsFromAllBranches still returns no error, and its result is exactly the
\* first-seen deduplicated union of the commits of the branches whose fetch succeeded
\* on every page; a failed branch contributes nothing, also when pages were fetched
\* before the failure.
C15_FailedBranchesSkipped ==
    (pc = "done" /\ op = "ByDay" /\ RepoKnown(repoName) /\ ~listFailed) =>
        /\ err = FALSE
        /\ allCommits = FirstSeen(ListingsOfFetched(branches), {})
        /\ ShaSet(allCommits) = UNION {Listed(b) : b \in okBranches}
        /\ Cardinality(ShaSet(allCommits)) = Len(allCommits)
        /\ \A f \in failedPages : f[1] \notin okBranches

\* a branch fails on its second page, after a full first page, and another one succeeds
C15_Witness ==
    /\ pc = "done"
    /\ op = "ByDay"
    /\ err = FALSE
    /\ \E f \in failedPages :
          /\ f[2] = 2
          /\ Listed(f[1]) \ ShaSet(allCommits) # {}
          /\ Cardinality(Listed(f[1]) \ ShaSet(allCommits)) >= perPage
    /\ okBranches # {}
    /\ allCommits # <<>>


----------------------------------------------------------------------------
(* github.Client (the go-github variant): GetRepositoriesWithRecentCommits *)

Orgs == {"acme", "initech"}

\* sevenDaysAgo := time.Now().AddDate(0, 0, -7)
ReportSince == AddDays(now, 0 - 7)

\* a repository of the platform: UpdatedAt may be missing; Commits holds the dates of
\* the commits of each branch
PlatformRepo(fullName, kind) ==
    [FullName |-> fullName, UpdatedAt |-> kind.UpdatedAt, Commits |-> kind.Commits]

\* the repositories the runs are checked with, relative to the cutoff s
RepoKinds(s) ==
    {[UpdatedAt |-> Absent,       Commits |-> [main |-> {s + 1}, dev |-> {}]],
     [UpdatedAt |-> Param(s),     Commits |-> [main |-> {s + 1}, dev |-> {}]],
     [UpdatedAt |-> Param(s + 1), Commits |-> [main |-> {s - 1, s + 1}, dev |-> {}]],
     [UpdatedAt |-> Param(s + 1), Commits |-> [main |-> {s - 1}, dev |-> {s + 1}]],
     [UpdatedAt |-> Param(s + 1), Commits |-> [main |-> {s - 1}, dev |-> {}]]}

\* every repository of the platform that the user owns or reaches through an organization
CandidateRepos == ToSet(ownedRepos) \cup UNION {ToSet(orgRepos[o]) : o \in ToSet(orgList)}

RepoByName(fullName) == CHOOSE r \in CandidateRepos : r.FullName = fullName

\* "repo.UpdatedAt != nil && repo.UpdatedAt.After(since)"
UpdatedAfter(r, s) == r.UpdatedAt # Absent /\ r.UpdatedAt[1] > s

\* the FullNames of the recently updated repositories of a listing
RecentOf(list, s) == {list[i].FullName : i \in {j \in 1 .. Len(list) : UpdatedAfter(list[j], s)}}

\* getUserRepositories: a failed page request returns the error and no repository
getUserRepositories(failed, s) ==
    IF failed THEN [err |-> TRUE, repos |-> {}]
    ELSE [err |-> FALSE, repos |-> RecentOf(ownedRepos, s)]

\* mutant of getOrganizationRepositories: the failure of one organization's listing is
\* returned as the error of the call
getOrganizationRepositoriesAbort(orgsFailed, bad, s) ==
    IF orgsFailed \/ bad # {} THEN [err |-> TRUE, repos |-> {}]
    ELSE [err |-> FALSE,
          repos |-> UNION {RecentOf(orgRepos[o], s) : o \in ToSet(orgList) \ bad}]

\* getOrganizationRepositories: a failure of Organizations.List is returned; the failure
\* of the listing of one organization (those in bad) breaks out of its page loop only
getOrganizationRepositories(orgsFailed, bad, s) ==
    IF orgsFailed THEN [err |-> TRUE, repos |-> {}]
    ELSE [err |-> FALSE,
          repos |-> UNION {RecentOf(orgRepos[o], s) : o \in ToSet(orgList) \ bad}]

\* the FullNames of the recently updated repositories of a listing, in listing order
RecentSeq(list, s) ==
    LET kept == SelectSeq(list, LAMBDA r : UpdatedAfter(r, s))
    IN [i \in 1 .. Len(kept) |-> kept[i].FullName]

\* the keys written to reposMap, in the order of the writes: the owned repositories,
\* then those of the organizations whose listing did not fail
RECURSIVE OrgKeys(_, _, _)
OrgKeys(orgs, bad, s) ==
    IF orgs = <<>> THEN <<>>
    ELSE (IF Head(orgs) \in bad THEN <<>> ELSE RecentSeq(orgRepos[Head(orgs)], s))
            \o OrgKeys(Tail(orgs), bad, s)

MapWrites(orgsErr, bad, s) ==
    RecentSeq(ownedRepos, s) \o (IF orgsErr THEN <<>> ELSE OrgKeys(orgList, bad, s))

\* mutant of RangeOverMap: the repositories are kept in a slice, one entry per write
RangeOverSlice(writes) == {writes}

\* "for _, repoInfo := range reposMap": every key once, in an order of the map
RangeOverMap(writes) ==
    {t \in Arrangements(ToSet(writes)) : Len(t) = Cardinality(ToSet(writes))}

\* GET /repos/{owner}/{repo}/commits?since=..&per_page=1 without sha: the commits of
\* the default branch
CommitsSince(fullName, s) ==
    {d \in RepoByName(fullName).Commits[DefaultBranch] : d >= s}

\* hasCommitsSince
hasCommitsSince(fullName, s, failed) ==
    IF failed THEN [err |-> TRUE, has |-> FALSE]
    ELSE [err |-> FALSE, has |-> CommitsSince(fullName, s) # {}]

\* GetRepositoriesWithRecentCommits up to the organization repositories: the owned
\* repositories; their failure ends the call with the error
GetRepositoriesWithRecentCommits ==
    /\ rpc = "idle"
    /\ \E failed \in BOOLEAN :
        LET u == getUserRepositories(failed, ReportSince)
        IN /\ rerr' = u.err
           /\ reposMap' = u.repos
           /\ rpc' = IF u.err THEN "done" ELSE "orgs"
    /\ UNCHANGED <<now, aggVars, filterVars, llmVars, startVars, listVars, ownedRepos,
                   orgList, orgRepos, checkOrder, cidx, report, orgListFailed,
                   failedOrgs, failedChecks,
                   configVars, tuiVars>>

\* the organization repositories are added to reposMap unless their listing returned an
\* error, which is logged; then the range over reposMap starts, in an order of the map
OrganizationRepositories ==
    /\ rpc = "orgs"
    /\ \E orgsFailed \in BOOLEAN, bad \in SUBSET ToSet(orgList) :
        LET o == getOrganizationRepositories(orgsFailed, bad, ReportSince)
            m == IF o.err THEN reposMap ELSE reposMap \cup o.repos
        IN /\ orgListFailed' = o.err
           /\ failedOrgs' = IF orgsFailed THEN {} ELSE bad
           /\ reposMap' = m
           /\ checkOrder' \in RangeOverMap(MapWrites(o.err, bad, ReportSince))
           /\ rpc' = IF m = {} THEN "done" ELSE "check"
    /\ UNCHANGED <<now, aggVars, filterVars, llmVars, startVars, listVars, ownedRepos,
                   orgList, orgRepos, cidx, report, rerr, failedChecks,
                   configVars, tuiVars>>

\* one iteration of "for _, repoInfo := range reposMap"
CheckCommitsStep ==
    /\ rpc = "check"
    /\ cidx < Len(checkOrder)
    /\ \E failed \in BOOLEAN :
        LET name == checkOrder[cidx + 1]
            h == hasCommitsSince(name, ReportSince, failed)
        IN /\ failedChecks' = IF h.err THEN failedChecks \cup {name} ELSE failedChecks
           /\ report' = IF ~h.err /\ h.has THEN Append(report, name) ELSE report
    /\ cidx' = cidx + 1
    /\ rpc' = IF cidx + 1 = Len(checkOrder) THEN "done" ELSE "check"
    /\ UNCHANGED <<now, aggVars, filterVars, llmVars, startVars, listVars, ownedRepos,
                   orgList, orgRepos, reposMap, checkOrder, rerr, orgListFailed,
                   failedOrgs,
                   configVars, tuiVars>>

InitReport ==
    /\ now = ListNow
    /\ branchOrder = <<>>
    /\ reach = [b \in BranchNames |-> {}]
    /\ repos = StoredRepos
    /\ AggIdle
    /\ FilterUnused
    /\ LLMIdle
    /\ ConfigUnused
    /\ TuiUnused
    /\ StartUnused
    /\ ListUnused
    /\ \E k \in RepoKinds(AddDays(ListNow, 0 - 7)) :
        ownedRepos = <<PlatformRepo("me/app", k)>>
    /\ orgList \in {<<>>, <<"acme">>, <<"acme", "initech">>}
    /\ \E ka, ki \in RepoKinds(AddDays(ListNow, 0 - 7)) :
        orgRepos = [o \in Orgs |->
                      IF o = "acme" THEN <<PlatformRepo("acme/svc", ka)>>
                      ELSE <<PlatformRepo("initech/tool", ki)>>]
    /\ ReportIdle

NextReport ==
    \/ GetRepositoriesWithRecentCommits
    \/ OrganizationRepositories
    \/ CheckCommitsStep

SpecReport == InitReport /\ [][NextReport]_vars

----------------------------------------------------------------------------
(* Properties of the activity report *)

\* C18: when the listing of one organization's repositories fails, the call of
\* getOrganizationRepositories returns no error and the recently updated repositories
\* of the other organizations are candidates next to the owned ones; when the listing
\* of the organizations fails, the candidates are the owned repositories alone, and the
\* report is produced from them without an error.
C18_OrganizationFailuresSkipped ==
    (rpc \in {"check", "done"} /\ ~rerr) =>
        /\ failedOrgs # {} => ~orgListFailed
        /\ ~orgListFailed =>
              reposMap = RecentOf(ownedRepos, ReportSince) \cup
                         UNION {RecentOf(orgRepos[o], ReportSince) :
                                    o \in ToSet(orgList) \ failedOrgs}
        /\ orgListFailed => reposMap = RecentOf(ownedRepos, ReportSince)
        /\ rpc = "done" =>
              ToSet(report) = {n \in reposMap \ failedChecks :
                                  CommitsSince(n, ReportSince) # {}}

\* the listing of one organization failed and a repository of the other is reported
C18_Witness ==
    /\ rpc = "done"
    /\ ~rerr
    /\ failedOrgs = {"acme"}
    /\ UpdatedAfter(orgRepos["acme"][1], ReportSince)
    /\ "initech/tool" \in ToSet(report)
    /\ "acme/svc" \notin reposMap

\* the listing of the organizations failed and the report holds an owned repository
OrgListFailedWitness ==
    /\ rpc = "done"
    /\ ~rerr
    /\ orgListFailed
    /\ orgList # <<>>
    /\ report = <<"me/app">>

\* C19: when no request fails, a repository the user owns or reaches through an
\* organization is in the report if and only if its UpdatedAt is after the cutoff and
\* one of its branches, the default one or another, has a commit after the cutoff.
C19_ReportedIffRecentCommit ==
    (rpc = "done" /\ ~rerr /\ ~orgListFailed /\ failedOrgs = {} /\ failedChecks = {}) =>
        \A r \in CandidateRepos :
            r.FullName \in ToSet(report) <=>
                /\ UpdatedAfter(r, ReportSince)
                /\ \E b \in DOMAIN r.Commits : \E d \in r.Commits[b] : d > ReportSince

\* what the report does hold: the recently updated repositories whose default branch
\* has a commit since the cutoff
ReportedIffCommitOnDefault ==
    (rpc = "done" /\ ~rerr /\ ~orgListFailed /\ failedOrgs = {} /\ failedChecks = {}) =>
        \A r \in CandidateRepos :
            r.FullName \in ToSet(report) <=>
                /\ UpdatedAfter(r, ReportSince)
                /\ \E d \in r.Commits[DefaultBranch] : d >= ReportSince

\* a recently updated repository whose only recent commit is on "dev" is not reported
ReportedIffCommitOnDefaultWitness ==
    /\ rpc = "done"
    /\ ~rerr
    /\ failedChecks = {}
    /\ UpdatedAfter(ownedRepos[1], ReportSince)
    /\ ownedRepos[1].Commits["dev"] # {}
    /\ "me/app" \notin ToSet(report)


----------------------------------------------------------------------------
(* GetLatestCommits and the activity report when single repositories fail *)

\* the repository kind with a recent commit on the default branch
ActiveKind(s) == [UpdatedAt |-> Param(s + 1), Commits |-> [main |-> {s - 1, s + 1}, dev |-> {}]]

InitSkip ==
    /\ now = ListNow
    /\ branchOrder = <<>>
    /\ reach = [b \in BranchNames |-> {}]
    /\ repos = StoredRepos
    /\ AggIdle
    /\ FilterUnused
    /\ LLMIdle
    /\ ConfigUnused
    /\ TuiUnused
    /\ StartUnused
    /\ platformCommits \in {CommitStore(n) : n \in {1, PlatformDefaultPerPage + 1}}
    /\ ListIdle
    /\ ownedRepos = <<PlatformRepo("me/app", ActiveKind(AddDays(ListNow, 0 - 7)))>>
    /\ orgList = <<"acme", "initech">>
    /\ \E ka \in RepoKinds(AddDays(ListNow, 0 - 7)) :
        orgRepos = [o \in Orgs |->
                      IF o = "acme" THEN <<PlatformRepo("acme/svc", ka)>>
                      ELSE <<PlatformRepo("initech/tool",
                                          ActiveKind(AddDays(ListNow, 0 - 7)))>>]
    /\ ReportIdle

NextSkip ==
    \/ CallLatestCommits
    \/ LatestCommitsStep
    \/ GetRepositoriesWithRecentCommits
    \/ OrganizationRepositories
    \/ CheckCommitsStep

SpecSkip == InitSkip /\ [][NextSkip]_vars

\* the answers to the requests of the first i selected repositories, those of the
\* failed ones left out, in selection order
RECURSIVE AnsweredForSelection(_)
AnsweredForSelection(i) ==
    IF i = 0 THEN <<>>
    ELSE AnsweredForSelection(i - 1) \o
            (IF i \in okRepos
             THEN ToCommits(PlatformAnswer(LatestURL(NameOfChoice(selection[i]), sinceArg)),
                            NameOfChoice(selection[i]))
             ELSE <<>>)

\* C20: GetLatestCommits returns a nil error whatever requests fail, and its result is
\* the concatenation, in selection order, of the commits answered for exactly the
\* selected repositories whose request, read and decode succeeded; the activity report
\* leaves out every repository whose commit check failed and still holds every other
\* candidate that has commits.
C20_FailedRepositoriesSkipped ==
    /\ (cpc = "done" /\ cop = "Latest") =>
          /\ cerr = FALSE
          /\ listed = AnsweredForSelection(Len(selection))
          /\ \A i \in 1 .. Len(selection) :
                i \notin okRepos =>
                    \A j \in 1 .. Len(listed) :
                        listed[j].RepoName # NameOfChoice(selection[i])
    /\ (rpc = "done" /\ ~rerr) =>
          /\ \A n \in failedChecks : n \notin ToSet(report)
          /\ \A n \in reposMap \ failedChecks :
                CommitsSince(n, ReportSince) # {} => n \in ToSet(report)

\* the request of the second selected repository failed after the first one's commits
\* were collected, and the report lost one repository to a failed check and holds another
C20_Witness ==
    /\ cpc = "done"
    /\ cop = "Latest"
    /\ Len(selection) = 2
    /\ okRepos = {1}
    /\ listed # <<>>
    /\ rpc = "done"
    /\ ~rerr
    /\ failedChecks # {}
    /\ report # <<>>
    /\ \E n \in failedChecks : CommitsSince(n, ReportSince) # {}


----------------------------------------------------------------------------
(* Properties of the digest built by GenerateSummary *)

\* a call of GenerateSummary with a non-empty commit sequence has returned
DigestBuilt == lpc = "done" /\ lop = "GenerateSummary" /\ Len(llmCommits) > 0

HeaderLines == {i \in 1 .. Len(prompt) : prompt[i].kind = "header"}
CommitLines == {i \in 1 .. Len(prompt) : prompt[i].kind = "commit"}

\* the repository named by the nearest header line above line i ("" when there is none)
HeaderAbove(i) ==
    LET above == {h \in HeaderLines : h < i}
    IN IF above = {} THEN ""
       ELSE prompt[CHOOSE h \in above : \A g \in above : g <= h].repo

\* the position in the input of the first commit of a repository
FirstAppearance(name) ==
    CHOOSE k \in 1 .. Len(llmCommits) :
        /\ llmCommits[k].RepoName = name
        /\ \A j \in 1 .. (k - 1) : llmCommits[j].RepoName # name

\* C23: the digest of a non-empty commit sequence has exactly one header line per
\* distinct repository name of the input and exactly one commit line per input commit;
\* each commit line stands under the header of its commit's repository, and the commit
\* lines under one header keep the relative order of the input.
C23_DigestGroupsCommits ==
    DigestBuilt =>
        /\ \A k \in 1 .. Len(llmCommits) :
              Cardinality({h \in HeaderLines :
                              prompt[h].repo = llmCommits[k].RepoName}) = 1
        /\ \A h \in HeaderLines :
              \E k \in 1 .. Len(llmCommits) : llmCommits[k].RepoName = prompt[h].repo
        /\ Cardinality(CommitLines) = Len(llmCommits)
        /\ \A k \in 1 .. Len(llmCommits) :
              Cardinality({i \in CommitLines : prompt[i].sha = llmCommits[k].SHA}) = 1
        /\ \A i \in CommitLines :
              HeaderAbove(i) = llmCommits[prompt[i].sha].RepoName
        /\ \A i, j \in CommitLines :
              (i < j /\ HeaderAbove(i) = HeaderAbove(j)) => prompt[i].sha < prompt[j].sha

\* the commits of two repositories alternate in the input
C23_Witness ==
    /\ DigestBuilt
    /\ Len(llmCommits) = 3
    /\ llmCommits[1].RepoName = llmCommits[3].RepoName
    /\ llmCommits[1].RepoName # llmCommits[2].RepoName
    /\ Cardinality(HeaderLines) = 2
    /\ Cardinality(CommitLines) = 3

\* C24: the repository groups of the digest appear in the order of each repository's
\* first appearance in the input commit sequence.
C24_GroupsInFirstSeenOrder ==
    DigestBuilt =>
        \A g, h \in HeaderLines :
            g < h => FirstAppearance(prompt[g].repo) < FirstAppearance(prompt[h].repo)


----------------------------------------------------------------------------
(* LoadConfig: DAYS_BACK and PER_PAGE *)

MaxEnvLen == 2           \* characters in the value of an environment variable

DefaultDaysBack == 7
DefaultPerPage == 10

\* the characters the values are written with; a string is a sequence of characters
EnvChars == {"-", "+", "0", "2", "x"}
Digits == {"0", "2"}
DigitValue(ch) == IF ch = "2" THEN 2 ELSE 0

EnvValues == UNION {[1 .. n -> EnvChars] : n \in 0 .. MaxEnvLen}

\* os.Getenv: the empty string for a variable that is not set
Getenv(name) == IF osEnv[name] = Absent THEN <<>> ELSE osEnv[name][1]

\* the loop of strconv.Atoi over the characters after the sign
RECURSIVE AtoiDigits(_, _)
AtoiDigits(str, n) ==
    IF str = <<>> THEN [err |-> FALSE, value |-> n]
    ELSE IF Head(str) \notin Digits THEN [err |-> TRUE, value |-> 0]
    ELSE AtoiDigits(Tail(str), n * 10 + DigitValue(Head(str)))

\* strconv.Atoi for strings short enough not to leave the range of int
Atoi(str) ==
    IF str = <<>> THEN [err |-> TRUE, value |-> 0]
    ELSE LET signed == Head(str) \in {"-", "+"}
             rest == IF signed THEN Tail(str) ELSE str
             r == AtoiDigits(rest, 0)
         IN IF rest = <<>> \/ r.err THEN [err |-> TRUE, value |-> 0]
            ELSE [err |-> FALSE, value |-> IF Head(str) = "-" THEN 0 - r.value ELSE r.value]

\* mutant of Override: zero is accepted
OverrideNonNegative(str, default) ==
    IF str # <<>> /\ ~Atoi(str).err /\ Atoi(str).value >= 0 THEN Atoi(str).value
    ELSE default

\* "if s := os.Getenv(..); s != "" { if v, err := strconv.Atoi(s); err == nil && v > 0"
Override(str, default) ==
    IF str # <<>> /\ ~Atoi(str).err /\ Atoi(str).value > 0 THEN Atoi(str).value
    ELSE default

\* a call of LoadConfig: the two numeric fields
LoadConfigNumbers ==
    /\ kpc = "idle"
    /\ config' = [DaysBack |-> Override(Getenv("DAYS_BACK"), DefaultDaysBack),
                  PerPage |-> Override(Getenv("PER_PAGE"), DefaultPerPage)]
    /\ kpc' = "loaded"
    /\ UNCHANGED <<now, aggVars, filterVars, llmVars, startVars, listVars, reportVars,
                   osEnv, tuiVars>>

InitConfig ==
    /\ now = 0
    /\ AggUnused
    /\ FilterUnused
    /\ LLMIdle
    /\ StartUnused
    /\ ListUnused
    /\ ReportUnused
    /\ TuiUnused
    /\ osEnv \in [{"DAYS_BACK", "PER_PAGE"} -> {Absent} \cup {Param(v) : v \in EnvValues}]
    /\ config = <<>>
    /\ kpc = "idle"

NextConfig == LoadConfigNumbers

SpecConfig == InitConfig /\ [][NextConfig]_vars

\* the decimal number written by a string of digits
RECURSIVE Decimal(_)
Decimal(digs) ==
    IF digs = <<>> THEN 0
    ELSE 10 * Decimal(SubSeq(digs, 1, Len(digs) - 1)) + DigitValue(digs[Len(digs)])

\* the digits of a string that writes an integer: an optional sign, then digits only
DigitsOf(str) == IF str # <<>> /\ str[1] \in {"-", "+"} THEN Tail(str) ELSE str

\* the string writes a positive integer
WritesPositive(str) ==
    /\ DigitsOf(str) # <<>>
    /\ \A i \in 1 .. Len(DigitsOf(str)) : DigitsOf(str)[i] \in Digits
    /\ str[1] # "-"
    /\ Decimal(DigitsOf(str)) > 0

\* C25: after LoadConfig, DaysBack and PerPage are at least 1: each is the value of its
\* environment variable when that writes a positive integer, and the default (7 and 10)
\* when the variable is unset, empty, not a number, zero or negative.
C25_NumbersAtLeastOne ==
    kpc = "loaded" =>
        /\ config.DaysBack >= 1
        /\ config.PerPage >= 1
        /\ config.DaysBack = (IF WritesPositive(Getenv("DAYS_BACK"))
                              THEN Decimal(DigitsOf(Getenv("DAYS_BACK")))
                              ELSE DefaultDaysBack)
        /\ config.PerPage = (IF WritesPositive(Getenv("PER_PAGE"))
                             THEN Decimal(DigitsOf(Getenv("PER_PAGE")))
                             ELSE DefaultPerPage)

\* DAYS_BACK is negative and PER_PAGE is 20
C25_Witness ==
    /\ kpc = "loaded"
    /\ osEnv["DAYS_BACK"] = Param(<<"-", "2">>)
    /\ osEnv["PER_PAGE"] = Param(<<"2", "0">>)
    /\ config = [DaysBack |-> DefaultDaysBack, PerPage |-> 20]


----------------------------------------------------------------------------
(* Properties of the requests of one aggregation run *)

\* no commit listing request (same branch and page) is issued twice
EachPageOnce == \A i, j \in 1 .. Len(pageLog) : pageLog[i] = pageLog[j] => i = j

\* C26 as stated: within one aggregation run each page request (same branch and page)
\* and each single-commit detail request (same commit) is issued at most once.
C26_Original ==
    /\ EachPageOnce
    /\ \A i, j \in 1 .. Len(detailLog) : detailLog[i].sha = detailLog[j].sha => i = j

\* C26 amended: each page request is issued at most once and a failed one is the last
\* request of its branch; a single-commit detail request is issued at most once per
\* branch and never again after it succeeded, but after a failed detail request the
\* same commit is asked for again when a later branch lists it.
C26_NoRetry ==
    /\ EachPageOnce
    /\ \A f \in failedPages :
          \A i \in 1 .. Len(pageLog) : pageLog[i][1] = f[1] => pageLog[i][2] <= f[2]
    /\ \A i, j \in 1 .. Len(detailLog) :
          (i < j /\ detailLog[i].sha = detailLog[j].sha) =>
              /\ ~detailLog[i].ok
              /\ detailLog[i].branch # detailLog[j].branch

\* the detail request of a commit failed for one branch and was issued again, with
\* success, for the next branch
C26_Witness ==
    /\ pc = "done"
    /\ op = "RepoCommits"
    /\ Len(pageLog) = 2
    /\ \E i, j \in 1 .. Len(detailLog) :
          /\ i < j
          /\ detailLog[i].sha = detailLog[j].sha
          /\ detailLog[j].ok
          /\ commitExists(allCommits, detailLog[j].sha)


----------------------------------------------------------------------------
(* The terminal interface of package main: model.Update *)

MaxChoices == 3          \* repositories loaded by the client

NumDayOptions == 7       \* getLast7Days: "for i := range 7"

ACTION__SELECT_DAYS == "ACTION__SELECT_DAYS"
ACTION__SHOW_ALL_REPOS == "ACTION__SHOW_ALL_REPOS"
ACTION__SHOW_SELECTED_REPOS == "ACTION__SHOW_SELECTED_REPOS"
ACTION__LOADING_COMMITS == "ACTION__LOADING_COMMITS"
ACTION__SHOW_COMMITS == "ACTION__SHOW_COMMITS"
ACTION__GENERATING_SUMMARY == "ACTION__GENERATING_SUMMARY"
ACTION__SHOW_SUMMARY == "ACTION__SHOW_SUMMARY"

Actions ==
    {ACTION__SELECT_DAYS, ACTION__SHOW_ALL_REPOS, ACTION__SHOW_SELECTED_REPOS,
     ACTION__LOADING_COMMITS, ACTION__SHOW_COMMITS, ACTION__GENERATING_SUMMARY,
     ACTION__SHOW_SUMMARY}

\* dayOptions[i].daysBack
DaysBackOf(i) == IF i = 0 THEN 1 ELSE i + 1

\* the keys of the interface; "x" stands for a key without a case
QuitKeys == {"ctrl+c", "q"}
UpKeys == {"up", "k"}
DownKeys == {"down", "j"}
LeftKeys == {"left", "h"}
RightKeys == {"right", "l"}
Keys == QuitKeys \cup UpKeys \cup DownKeys \cup LeftKeys \cup RightKeys
            \cup {"b", " ", "enter", "x"}

\* the keys pressed in the runs: one of each case, and both quit keys
PressedKeys == QuitKeys \cup {"b", "up", "down", "left", "right", " ", "enter", "x"}

NoCmd == [kind |-> "nil"]
Quit == [kind |-> "Quit"]
Panic == [kind |-> "panic"]

\* LoadCommits(gh, repos, daysBack) and GenerateSummary(llm, commits): the commands
LoadCommits(rs, d) == [kind |-> "LoadCommits", repos |-> rs, daysBack |-> d]
GenerateSummaryCmd(cs) == [kind |-> "GenerateSummary", commits |-> cs]

\* paginator.SetTotalPages
SetTotalPages(p, items) ==
    IF items < 1 THEN p
    ELSE [p EXCEPT !.TotalPages =
              (items \div p.PerPage) + (IF items % p.PerPage > 0 THEN 1 ELSE 0)]

\* paginator.PrevPage and paginator.NextPage
PrevPage(p) == IF p.Page > 0 THEN [p EXCEPT !.Page = p.Page - 1] ELSE p
NextPageOf(p) == IF p.Page # p.TotalPages - 1 THEN [p EXCEPT !.Page = p.Page + 1] ELSE p

\* case "up", "k"
KeyUp(m) ==
    IF m.action = ACTION__SELECT_DAYS
    THEN IF m.selectedDay > 0 THEN [m EXCEPT !.selectedDay = m.selectedDay - 1] ELSE m
    ELSE IF m.cursor > 0 THEN [m EXCEPT !.cursor = m.cursor - 1]
    ELSE IF m.paginator.Page > 0
         THEN [m EXCEPT !.paginator = PrevPage(m.paginator),
                        !.cursor = m.paginator.PerPage - 1]
    ELSE m

\* case "down", "j"
KeyDown(m) ==
    IF m.action = ACTION__SELECT_DAYS
    THEN IF m.selectedDay < NumDayOptions - 1
         THEN [m EXCEPT !.selectedDay = m.selectedDay + 1] ELSE m
    ELSE IF /\ m.cursor < m.paginator.PerPage - 1
            /\ m.cursor + m.paginator.Page * m.paginator.PerPage < Len(m.choices) - 1
         THEN [m EXCEPT !.cursor = m.cursor + 1]
    ELSE IF m.paginator.Page < m.paginator.TotalPages - 1
         THEN [m EXCEPT !.paginator = NextPageOf(m.paginator), !.cursor = 0]
    ELSE m

\* case "left", "h"
KeyLeft(m) ==
    IF m.action # ACTION__SELECT_DAYS /\ m.paginator.Page > 0
    THEN [m EXCEPT !.paginator = PrevPage(m.paginator)] ELSE m

\* case "right", "l"
KeyRight(m) ==
    IF m.action # ACTION__SELECT_DAYS /\ m.paginator.Page < m.paginator.TotalPages - 1
    THEN [m EXCEPT !.paginator = NextPageOf(m.paginator)] ELSE m

\* mutant of KeySpace: the offset of the page is left out
KeySpaceOnPage(m) ==
    IF m.action = ACTION__SELECT_DAYS THEN m
    ELSE IF m.cursor \in m.selected
         THEN [m EXCEPT !.selected = m.selected \ {m.cursor}]
         ELSE [m EXCEPT !.selected = m.selected \cup {m.cursor}]

\* case " "
KeySpace(m) ==
    IF m.action = ACTION__SELECT_DAYS THEN m
    ELSE LET offset == m.paginator.Page * m.paginator.PerPage
         IN IF offset + m.cursor \in m.selected
            THEN [m EXCEPT !.selected = m.selected \ {offset + m.cursor}]
            ELSE [m EXCEPT !.selected = m.selected \cup {offset + m.cursor}]

\* mutant of KeyBack: the selection is kept
KeyBackKeepsSelection(m) ==
    IF m.action = ACTION__SHOW_ALL_REPOS
    THEN [m EXCEPT !.action = ACTION__SELECT_DAYS, !.cursor = 0]
    ELSE m

\* case "b"
KeyBack(m) ==
    IF m.action = ACTION__SHOW_ALL_REPOS
    THEN [m EXCEPT !.action = ACTION__SELECT_DAYS, !.cursor = 0, !.selected = {}]
    ELSE m

\* case "enter" in ACTION__SELECT_DAYS; choices is the answer of
\* GetRecentlyUpdatedReposChoices(daysBack)
EnterSelectDays(m, choices) ==
    LET d == DaysBackOf(m.selectedDay)
    IN IF Len(choices) = 0
       THEN [m EXCEPT !.daysBack = d, !.choices = choices,
                      !.action = ACTION__SHOW_ALL_REPOS]
       ELSE [m EXCEPT !.daysBack = d, !.choices = choices,
                      !.paginator = SetTotalPages(m.paginator, Len(choices)),
                      !.cursor = 0, !.selected = {},
                      !.action = ACTION__SHOW_ALL_REPOS]

\* case "enter" in ACTION__SHOW_ALL_REPOS; order is the order in which "range m.selected"
\* yields the selected indices; m.choices[s] of an index beyond the list panics
EnterShowAllRepos(m, order) ==
    IF Len(m.choices) = 0
    THEN [model |-> [m EXCEPT !.action = ACTION__SELECT_DAYS], cmd |-> NoCmd]
    ELSE IF \E s \in m.selected : s >= Len(m.choices) THEN [model |-> m, cmd |-> Panic]
    ELSE LET selected == [i \in 1 .. Len(order) |-> m.choices[order[i] + 1]]
         IN IF Len(selected) > 0
            THEN [model |-> [m EXCEPT !.repoSelected = selected,
                                      !.action = ACTION__LOADING_COMMITS],
                  cmd |-> LoadCommits(selected, m.daysBack)]
            ELSE [model |-> m, cmd |-> NoCmd]

\* mutant of KeyEnter: enter starts the summary generation while the commits load
KeyEnterEarlySummary(m, order, choices) ==
    IF m.action = ACTION__SELECT_DAYS
    THEN [model |-> EnterSelectDays(m, choices), cmd |-> NoCmd]
    ELSE IF m.action = ACTION__SHOW_ALL_REPOS THEN EnterShowAllRepos(m, order)
    ELSE IF m.action = ACTION__SHOW_SELECTED_REPOS
    THEN [model |-> [m EXCEPT !.action = ACTION__LOADING_COMMITS],
          cmd |-> LoadCommits(m.repoSelected, m.daysBack)]
    ELSE IF m.action \in {ACTION__SHOW_COMMITS, ACTION__LOADING_COMMITS}
    THEN [model |-> [m EXCEPT !.action = ACTION__GENERATING_SUMMARY],
          cmd |-> GenerateSummaryCmd(m.commits)]
    ELSE IF m.action = ACTION__SHOW_SUMMARY THEN [model |-> m, cmd |-> Quit]
    ELSE [model |-> m, cmd |-> NoCmd]

\* mutant of KeyEnter: enter starts the commit load again while it runs
KeyEnterAgain(m, order, choices) ==
    IF m.action = ACTION__SELECT_DAYS
    THEN [model |-> EnterSelectDays(m, choices), cmd |-> NoCmd]
    ELSE IF m.action = ACTION__SHOW_ALL_REPOS THEN EnterShowAllRepos(m, order)
    ELSE IF m.action \in {ACTION__SHOW_SELECTED_REPOS, ACTION__LOADING_COMMITS}
    THEN [model |-> [m EXCEPT !.action = ACTION__LOADING_COMMITS],
          cmd |-> LoadCommits(m.repoSelected, m.daysBack)]
    ELSE IF m.action = ACTION__SHOW_COMMITS
    THEN [model |-> [m EXCEPT !.action = ACTION__GENERATING_SUMMARY],
          cmd |-> GenerateSummaryCmd(m.commits)]
    ELSE IF m.action = ACTION__SHOW_SUMMARY THEN [model |-> m, cmd |-> Quit]
    ELSE [model |-> m, cmd |-> NoCmd]

\* case "enter"
KeyEnter(m, order, choices) ==
    IF m.action = ACTION__SELECT_DAYS
    THEN [model |-> EnterSelectDays(m, choices), cmd |-> NoCmd]
    ELSE IF m.action = ACTION__SHOW_ALL_REPOS THEN EnterShowAllRepos(m, order)
    ELSE IF m.action = ACTION__SHOW_SELECTED_REPOS
    THEN [model |-> [m EXCEPT !.action = ACTION__LOADING_COMMITS],
          cmd |-> LoadCommits(m.repoSelected, m.daysBack)]
    ELSE IF m.action = ACTION__SHOW_COMMITS
    THEN [model |-> [m EXCEPT !.action = ACTION__GENERATING_SUMMARY],
          cmd |-> GenerateSummaryCmd(m.commits)]
    ELSE IF m.action = ACTION__SHOW_SUMMARY THEN [model |-> m, cmd |-> Quit]
    ELSE [model |-> m, cmd |-> NoCmd]

\* mutant of UpdateKey: q is ignored while a background task runs
UpdateKeyBusy(m, key, order, choices) ==
    IF key \in QuitKeys
    THEN [model |-> m,
          cmd |-> IF m.action \in {ACTION__LOADING_COMMITS, ACTION__GENERATING_SUMMARY}
                  THEN NoCmd ELSE Quit]
    ELSE IF key = "enter" THEN KeyEnter(m, order, choices)
    ELSE [model |-> IF key = "b" THEN KeyBack(m)
                    ELSE IF key \in UpKeys THEN KeyUp(m)
                    ELSE IF key \in DownKeys THEN KeyDown(m)
                    ELSE IF key \in LeftKeys THEN KeyLeft(m)
                    ELSE IF key \in RightKeys THEN KeyRight(m)
                    ELSE IF key = " " THEN KeySpace(m)
                    ELSE m,
          cmd |-> NoCmd]

\* Update for a tea.KeyMsg
UpdateKey(m, key, order, choices) ==
    IF key \in QuitKeys THEN [model |-> m, cmd |-> Quit]
    ELSE IF key = "enter" THEN KeyEnter(m, order, choices)
    ELSE [model |-> IF key = "b" THEN KeyBack(m)
                    ELSE IF key \in UpKeys THEN KeyUp(m)
                    ELSE IF key \in DownKeys THEN KeyDown(m)
                    ELSE IF key \in LeftKeys THEN KeyLeft(m)
                    ELSE IF key \in RightKeys THEN KeyRight(m)
                    ELSE IF key = " " THEN KeySpace(m)
                    ELSE m,
          cmd |-> NoCmd]

\* mutant of UpdateMsg: a failed task clears the data it was to replace
UpdateMsgClears(m, msg) ==
    IF msg.type = "repoSelectionMsg"
    THEN [m EXCEPT !.action = ACTION__SHOW_SELECTED_REPOS, !.repoSelected = msg.repos]
    ELSE IF msg.type = "commitsLoadedMsg"
    THEN IF msg.err THEN [m EXCEPT !.action = ACTION__SHOW_SELECTED_REPOS,
                                   !.commits = <<>>]
         ELSE [m EXCEPT !.commits = msg.commits, !.action = ACTION__SHOW_COMMITS]
    ELSE IF msg.type = "summaryGeneratedMsg"
    THEN IF msg.err THEN [m EXCEPT !.action = ACTION__SHOW_COMMITS, !.summary = ""]
         ELSE [m EXCEPT !.summary = msg.summary, !.action = ACTION__SHOW_SUMMARY]
    ELSE m

\* mutant of UpdateMsg: the loaded commits are stored but the state is not left
UpdateMsgStays(m, msg) ==
    IF msg.type = "repoSelectionMsg"
    THEN [m EXCEPT !.action = ACTION__SHOW_SELECTED_REPOS, !.repoSelected = msg.repos]
    ELSE IF msg.type = "commitsLoadedMsg"
    THEN IF msg.err THEN [m EXCEPT !.action = ACTION__SHOW_SELECTED_REPOS]
         ELSE [m EXCEPT !.commits = msg.commits]
    ELSE IF msg.type = "summaryGeneratedMsg"
    THEN IF msg.err THEN [m EXCEPT !.action = ACTION__SHOW_COMMITS]
         ELSE [m EXCEPT !.summary = msg.summary, !.action = ACTION__SHOW_SUMMARY]
    ELSE m

\* Update for the messages of the background tasks and the spinner's tick
UpdateMsg(m, msg) ==
    IF msg.type = "repoSelectionMsg"
    THEN [m EXCEPT !.action = ACTION__SHOW_SELECTED_REPOS, !.repoSelected = msg.repos]
    ELSE IF msg.type = "commitsLoadedMsg"
    THEN IF msg.err THEN [m EXCEPT !.action = ACTION__SHOW_SELECTED_REPOS]
         ELSE [m EXCEPT !.commits = msg.commits, !.action = ACTION__SHOW_COMMITS]
    ELSE IF msg.type = "summaryGeneratedMsg"
    THEN IF msg.err THEN [m EXCEPT !.action = ACTION__SHOW_COMMITS]
         ELSE [m EXCEPT !.summary = msg.summary, !.action = ACTION__SHOW_SUMMARY]
    ELSE m


\* the repositories held by the client and the days since their last update
LoadedNames == <<"app", "lib", "web", "cli", "doc">>
AgeOf(i) == 2 * i - 1

\* GetRecentlyUpdatedReposChoices(d) when the client holds the first n repositories
RecentChoices(n, d) ==
    LET shown == SelectSeq([i \in 1 .. n |-> i], LAMBDA i : AgeOf(i) < d)
    IN [k \in 1 .. Len(shown) |-> LoadedNames[shown[k]]]

\* the commits GetLatestCommits collects: one per selected repository whose request
\* did not fail; in the runs no request or the first one fails
RECURSIVE CollectLatest(_, _, _)
CollectLatest(rs, i, failed) ==
    IF i = 0 THEN <<>>
    ELSE LatestAfter(i \in failed, CollectLatest(rs, i - 1, failed),
                     <<[SHA |-> i, RepoName |-> rs[i]]>>)

\* what the endpoint answers to the request of a summary task
TuiResponses ==
    {[kind |-> "transport", status |-> 0, candidates |-> <<>>],
     [kind |-> "decoded", status |-> StatusOK, candidates |-> <<<<"Summary text">>>>]}

\* the messages with which a background task can complete
TaskMessages(t) ==
    IF t.kind = "LoadCommits"
    THEN {[type |-> "commitsLoadedMsg",
           commits |-> CollectLatest(t.repos, Len(t.repos), failed), err |-> FALSE] :
              failed \in {{}, {1}}}
    ELSE {[type |-> "summaryGeneratedMsg",
           summary |-> SummaryResult(t.commits, resp).summary,
           err |-> SummaryResult(t.commits, resp).err] : resp \in TuiResponses}

\* the messages of the types Update has a case for
AnyMessages ==
    {[type |-> "repoSelectionMsg", repos |-> <<"app">>],
     [type |-> "commitsLoadedMsg", commits |-> <<[SHA |-> 1, RepoName |-> "app"]>>,
      err |-> FALSE],
     [type |-> "commitsLoadedMsg", commits |-> <<>>, err |-> TRUE],
     [type |-> "summaryGeneratedMsg", summary |-> "Summary text", err |-> FALSE],
     [type |-> "summaryGeneratedMsg", summary |-> "", err |-> TRUE]}

IsTask(c) == c.kind \in {"LoadCommits", "GenerateSummary"}

\* Update is handed a key press; the returned command is started when the run
\* includes the background tasks
KeyHandled(tasks) ==
    /\ running = "running"
    /\ \E key \in PressedKeys :
       \E order \in (IF key = "enter" /\ model.action = ACTION__SHOW_ALL_REPOS
                     THEN {o \in Arrangements(model.selected) :
                              Len(o) = Cardinality(model.selected)}
                     ELSE {<<>>}) :
        LET r == UpdateKey(model, key, order, recentRepos[DaysBackOf(model.selectedDay)])
        IN /\ model' = r.model
           /\ cmd' = r.cmd
           /\ lastMsg' = [type |-> "KeyMsg", key |-> key]
           /\ inflight' = IF tasks /\ IsTask(r.cmd) THEN inflight \cup {r.cmd}
                          ELSE inflight
           /\ running' = IF r.cmd = Quit THEN "quit"
                         ELSE IF r.cmd = Panic THEN "panic" ELSE running
    /\ prevModel' = model
    /\ UNCHANGED <<now, aggVars, filterVars, llmVars, startVars, listVars, reportVars,
                   configVars, lastLoad, recentRepos>>

\* the program handles a key press
KeyPress == KeyHandled(TRUE)

\* Update alone handles a key press
UpdateKeyMsg == KeyHandled(FALSE)

\* a background task completes and its message is handed to Update
TaskCompletes ==
    /\ running = "running"
    /\ \E t \in inflight :
       \E msg \in TaskMessages(t) :
        /\ model' = UpdateMsg(model, msg)
        /\ lastMsg' = msg
        /\ lastLoad' = IF msg.type = "commitsLoadedMsg" THEN msg ELSE lastLoad
        /\ inflight' = inflight \ {t}
    /\ cmd' = NoCmd
    /\ prevModel' = model
    /\ UNCHANGED <<now, aggVars, filterVars, llmVars, startVars, listVars, reportVars,
                   configVars, running, recentRepos>>

\* case spinner.TickMsg: the spinner advances and asks for its next tick
SpinnerTick ==
    /\ running = "running"
    /\ model' = UpdateMsg(model, [type |-> "spinner.TickMsg"])
    /\ lastMsg' = [type |-> "spinner.TickMsg"]
    /\ cmd' = [kind |-> "spinner.Tick"]
    /\ prevModel' = model
    /\ UNCHANGED <<now, aggVars, filterVars, llmVars, startVars, listVars, reportVars,
                   configVars, inflight, lastLoad, running, recentRepos>>

\* Update is handed a message of one of its types by the runtime
UpdateAny ==
    /\ running = "running"
    /\ \E msg \in AnyMessages :
        /\ model' = UpdateMsg(model, msg)
        /\ lastMsg' = msg
        /\ lastLoad' = IF msg.type = "commitsLoadedMsg" THEN msg ELSE lastLoad
    /\ cmd' = NoCmd
    /\ prevModel' = model
    /\ UNCHANGED <<now, aggVars, filterVars, llmVars, startVars, listVars, reportVars,
                   configVars, inflight, running, recentRepos>>

\* config.PerPage of the runs: PER_PAGE is 2
TuiPerPage == 2

\* the model built by func main
InitialModel(pp) ==
    [choices |-> <<>>, cursor |-> 0, selected |-> {},
     paginator |-> [Page |-> 0, PerPage |-> pp, TotalPages |-> 1],
     repoSelected |-> <<>>, action |-> ACTION__SELECT_DAYS, commits |-> <<>>,
     summary |-> "", daysBack |-> DefaultDaysBack, selectedDay |-> 0]

InitTui ==
    /\ now = 0
    /\ AggUnused
    /\ FilterUnused
    /\ LLMIdle
    /\ StartUnused
    /\ ListUnused
    /\ ReportUnused
    /\ ConfigUnused
    /\ model = InitialModel(TuiPerPage)
    /\ prevModel = model
    /\ lastMsg = [type |-> "none"]
    /\ cmd = [kind |-> "spinner.Tick"]
    /\ inflight = {}
    /\ lastLoad = [type |-> "none"]
    /\ running = "running"
    /\ recentRepos = [d \in 1 .. NumDayOptions |-> RecentChoices(MaxChoices, d)]

NextTui ==
    \/ KeyPress
    \/ TaskCompletes
    \/ SpinnerTick

SpecTui == InitTui /\ [][NextTui]_vars

NextUpdate ==
    \/ UpdateKeyMsg
    \/ UpdateAny

\* Update on its own, over a client that holds one repository
InitUpdate ==
    /\ now = 0
    /\ AggUnused
    /\ FilterUnused
    /\ LLMIdle
    /\ StartUnused
    /\ ListUnused
    /\ ReportUnused
    /\ ConfigUnused
    /\ model = InitialModel(TuiPerPage)
    /\ prevModel = model
    /\ lastMsg = [type |-> "none"]
    /\ cmd = [kind |-> "spinner.Tick"]
    /\ inflight = {}
    /\ lastLoad = [type |-> "none"]
    /\ running = "running"
    /\ recentRepos = [d \in 1 .. NumDayOptions |-> RecentChoices(1, d)]

SpecUpdate == InitUpdate /\ [][NextUpdate]_vars

----------------------------------------------------------------------------
(* Properties of the terminal interface *)

\* the last Update handled the key k
Pressed(k) == lastMsg.type = "KeyMsg" /\ lastMsg.key = k

\* the steps of the interface, forward and back
ForwardSteps ==
    {<<ACTION__SELECT_DAYS, ACTION__SHOW_ALL_REPOS>>,
     <<ACTION__SHOW_ALL_REPOS, ACTION__LOADING_COMMITS>>,
     <<ACTION__LOADING_COMMITS, ACTION__SHOW_COMMITS>>,
     <<ACTION__SHOW_COMMITS, ACTION__GENERATING_SUMMARY>>,
     <<ACTION__GENERATING_SUMMARY, ACTION__SHOW_SUMMARY>>}

BackwardSteps ==
    {<<ACTION__SHOW_ALL_REPOS, ACTION__SELECT_DAYS>>,
     <<ACTION__GENERATING_SUMMARY, ACTION__SHOW_COMMITS>>}

\* C21: the interface moves forward only along day selection, repository list, loading
\* commits, commits shown, generating summary, summary shown; a commit load is started
\* only by enter in the repository list with at least one selected repository, whose
\* choices it is given; a summary generation is started only by enter in the
\* commits-shown state and is given exactly the commits of the last completed commit
\* load; the summary-shown state is entered only when a summary generation completes
\* without an error.
C21_StepsInOrder ==
    /\ model.action # prevModel.action =>
          <<prevModel.action, model.action>> \in ForwardSteps \cup BackwardSteps
    /\ cmd.kind = "LoadCommits" =>
          /\ Pressed("enter")
          /\ prevModel.action = ACTION__SHOW_ALL_REPOS
          /\ prevModel.selected # {}
          /\ Len(cmd.repos) >= 1
          /\ ToSet(cmd.repos) = {prevModel.choices[s + 1] : s \in prevModel.selected}
    /\ cmd.kind = "GenerateSummary" =>
          /\ Pressed("enter")
          /\ prevModel.action = ACTION__SHOW_COMMITS
          /\ lastLoad.type = "commitsLoadedMsg"
          /\ cmd.commits = lastLoad.commits
    /\ (model.action = ACTION__SHOW_SUMMARY /\ prevModel.action # ACTION__SHOW_SUMMARY) =>
          /\ lastMsg.type = "summaryGeneratedMsg"
          /\ ~lastMsg.err
          /\ prevModel.action = ACTION__GENERATING_SUMMARY
    /\ \A t \in inflight :
          /\ t.kind = "LoadCommits" => model.action = ACTION__LOADING_COMMITS
          /\ t.kind = "GenerateSummary" => model.action = ACTION__GENERATING_SUMMARY

\* a summary of two loaded commits is shown
C21_Witness ==
    /\ running = "running"
    /\ model.action = ACTION__SHOW_SUMMARY
    /\ prevModel.action = ACTION__GENERATING_SUMMARY
    /\ lastMsg.type = "summaryGeneratedMsg"
    /\ Len(model.commits) = 2
    /\ lastLoad.commits = model.commits
    /\ model.summary = "Summary text"

\* C22: when Update is handed the error of a background task it falls back and keeps
\* its data: a failed summary generation changes nothing but the state, which becomes
\* commits-shown, and a failed commit load changes nothing but the state, which becomes
\* selected-repositories; enter in commits-shown starts the summary generation of the
\* stored commits and enter in selected-repositories starts the commit load of the
\* stored selection.
C22_ErrorFallsBack ==
    /\ (lastMsg.type = "summaryGeneratedMsg" /\ lastMsg.err) =>
          /\ model = [prevModel EXCEPT !.action = ACTION__SHOW_COMMITS]
          /\ cmd = NoCmd
    /\ (lastMsg.type = "commitsLoadedMsg" /\ lastMsg.err) =>
          /\ model = [prevModel EXCEPT !.action = ACTION__SHOW_SELECTED_REPOS]
          /\ cmd = NoCmd
    /\ (Pressed("enter") /\ prevModel.action = ACTION__SHOW_COMMITS) =>
          /\ cmd = GenerateSummaryCmd(prevModel.commits)
          /\ model = [prevModel EXCEPT !.action = ACTION__GENERATING_SUMMARY]
    /\ (Pressed("enter") /\ prevModel.action = ACTION__SHOW_SELECTED_REPOS) =>
          /\ cmd = LoadCommits(prevModel.repoSelected, prevModel.daysBack)
          /\ model = [prevModel EXCEPT !.action = ACTION__LOADING_COMMITS]

\* a commit load fails while commits of an earlier load are stored
C22_Witness ==
    /\ lastMsg.type = "commitsLoadedMsg"
    /\ lastMsg.err
    /\ prevModel.action = ACTION__LOADING_COMMITS
    /\ model.action = ACTION__SHOW_SELECTED_REPOS
    /\ model.commits # <<>>
    /\ model.repoSelected # <<>>

\* a summary generation fails while a summary is stored, and enter starts it again
SummaryFallbackWitness ==
    /\ Pressed("enter")
    /\ prevModel.action = ACTION__SHOW_COMMITS
    /\ prevModel.commits # <<>>
    /\ cmd.kind = "GenerateSummary"

\* the global index of the item under the cursor
UnderCursor(m) == m.paginator.Page * m.paginator.PerPage + m.cursor

\* C27: in the repository list, space toggles the membership of exactly the item under
\* the cursor (global index page*perPage + cursor) in the selection set and changes
\* nothing else of the model; a second space restores the selection set.
C27_SpaceTogglesUnderCursor ==
    (Pressed(" ") /\ prevModel.action = ACTION__SHOW_ALL_REPOS) =>
        /\ model = [prevModel EXCEPT !.selected =
                        IF UnderCursor(prevModel) \in prevModel.selected
                        THEN prevModel.selected \ {UnderCursor(prevModel)}
                        ELSE prevModel.selected \cup {UnderCursor(prevModel)}]
        /\ cmd = NoCmd
        /\ KeySpace(model) = prevModel

\* the first item of the second page is added to a selection of the first page
C27_Witness ==
    /\ Pressed(" ")
    /\ prevModel.action = ACTION__SHOW_ALL_REPOS
    /\ prevModel.paginator.Page = 1
    /\ prevModel.selected = {1}
    /\ model.selected = {1, 2}
    /\ Len(model.choices) = 3

\* C28: q and ctrl+c quit the application from every state, also while a commit load
\* or a summary generation runs, and enter quits it in the summary-shown state.
C28_QuitFromEveryState ==
    /\ (\E k \in QuitKeys : Pressed(k)) => (cmd = Quit /\ running = "quit")
    /\ (Pressed("enter") /\ prevModel.action = ACTION__SHOW_SUMMARY) =>
          (cmd = Quit /\ running = "quit")

\* q is pressed while the commits load
C28_Witness ==
    /\ Pressed("q")
    /\ running = "quit"
    /\ model.action = ACTION__LOADING_COMMITS
    /\ inflight # {}

\* C29: b in the repository list returns to day selection with the cursor at 0 and an
\* empty selection set, and changes nothing else; b in any other state changes nothing.
C29_BackToDaySelection ==
    Pressed("b") =>
        /\ cmd = NoCmd
        /\ running = "running"
        /\ prevModel.action = ACTION__SHOW_ALL_REPOS =>
              model = [prevModel EXCEPT !.action = ACTION__SELECT_DAYS, !.cursor = 0,
                                        !.selected = {}]
        /\ prevModel.action # ACTION__SHOW_ALL_REPOS => model = prevModel

\* b is pressed in the repository list with a selection and the cursor on the second row
C29_Witness ==
    /\ Pressed("b")
    /\ prevModel.action = ACTION__SHOW_ALL_REPOS
    /\ prevModel.selected # {}
    /\ prevModel.cursor = 1
    /\ model.action = ACTION__SELECT_DAYS
    /\ model.selected = {}

\* C30: in the repository list without repositories, every key other than q (and
\* ctrl+c) returns to day selection.
C30_AnyKeyGoesBack ==
    (/\ lastMsg.type = "KeyMsg"
     /\ lastMsg.key \notin QuitKeys
     /\ prevModel.action = ACTION__SHOW_ALL_REPOS
     /\ prevModel.choices = <<>>)
        => model.action = ACTION__SELECT_DAYS

\* what Update does in the empty repository list: enter and b return to day selection,
\* every other key stays
EmptyListEnterOrBack ==
    (/\ lastMsg.type = "KeyMsg"
     /\ lastMsg.key \notin QuitKeys
     /\ prevModel.action = ACTION__SHOW_ALL_REPOS
     /\ prevModel.choices = <<>>)
        => (model.action = ACTION__SELECT_DAYS <=> lastMsg.key \in {"enter", "b"})


----------------------------------------------------------------------------
(* Order of the merged sequence *)

\* the branches among the first n of the call whose listing succeeded
FetchedBefore(n) == {branches[j] : j \in {k \in 1 .. n : branches[k] \in okBranches}}

\* what the i-th branch of the call contributes: its listing, newest first, without
\* the commits listed by a branch fetched before it; nothing when its listing failed
Contribution(i) ==
    IF branches[i] \in okBranches
    THEN NewestFirst(Listed(branches[i]) \ UNION {Listed(b) : b \in FetchedBefore(i - 1)})
    ELSE <<>>

\* the contributions of the first n branches, in branch order
RECURSIVE FirstSeenOrder(_)
FirstSeenOrder(n) == IF n = 0 THEN <<>> ELSE FirstSeenOrder(n - 1) \o Contribution(n)

\* a commit sequence is sorted by date, newest first
SortedByDate(commits) ==
    \A i \in 1 .. Len(commits) - 1 : commits[i].Date >= commits[i + 1].Date

----------------------------------------------------------------------------
(* GetRepositoryCommits over branches whose commit listings span several pages *)

SpecDetailPartial == InitPartial /\ [][NextDetail]_vars

\* C32: in GetRepositoryCommits a branch whose commit listing fails is skipped as a
\* unit: the call returns no error, the remaining branches are processed, and the
\* result holds no commit of a failed branch unless a branch whose listing succeeded
\* lists it too.
C32_FailedBranchSkippedAsUnit ==
    (pc = "done" /\ op = "RepoCommits" /\ ~listFailed) =>
        /\ err = FALSE
        /\ idx = Len(branches)
        /\ ShaSet(allCommits) \subseteq UNION {Listed(b) : b \in okBranches}

\* the commits on the pages of a failed branch that were fetched before the failure
FetchedBeforeFailure ==
    UNION {ShaSet(SubSeq(PlatformCommits(f[1], since), 1, (f[2] - 1) * perPage)) :
              f \in failedPages}

\* what GetRepositoryCommits does: the pages fetched before the failed page stay
PagesBeforeFailureKept ==
    (pc = "done" /\ op = "RepoCommits" /\ ~listFailed) =>
        /\ err = FALSE
        /\ idx = Len(branches)
        /\ ShaSet(allCommits) \subseteq
              (UNION {Listed(b) : b \in okBranches}) \cup FetchedBeforeFailure
        /\ FetchedBeforeFailure \ skipped \subseteq ShaSet(allCommits)


----------------------------------------------------------------------------
(* The page loops of package github: repositories, branches, commits *)

\* which of the three listings a run exercises
RepositoryRun == program = "viewer"
CommitRun == DOMAIN platformCommits # {}
BranchRun == ~RepositoryRun /\ ~CommitRun

\* a run loads the repositories (NewGithub of package github), or lists the commits
\* of a branch, or lists the branches of a repository
InitPages ==
    \/ InitStart /\ program = "viewer"
    \/ InitList
    \/ InitBranches

NextPages ==
    \/ RepositoryRun /\ NewGithub
    \/ RepositoryRun /\ LoadReposFromUserPage
    \/ CommitRun /\ CallSinceFromBranch
    \/ CommitRun /\ SinceFromBranchPage
    \/ BranchRun /\ GetCommitsForRepoByDay

SpecPages == InitPages /\ [][NextPages]_vars

\* the pages of the commit listing requests issued so far
CommitPagesRequested == [i \in 1 .. Len(reqLog) |-> reqLog[i].page[1]]

\* the requests asked for pages 1, 2, ... of a listing of n items, each one after a
\* full page, and for no page beyond the first page that holds fewer than perPage items
InOrderNoGaps(pages, n) ==
    /\ \A i \in 1 .. Len(pages) : pages[i] = i
    /\ \A i \in 1 .. Len(pages) - 1 : n >= i * perPage
    /\ Len(pages) <= (n \div perPage) + 1

\* the last request was for the first page that holds fewer than perPage items
EndsOnShortPage(pages, n) ==
    /\ Len(pages) = (n \div perPage) + 1
    /\ n - (Len(pages) - 1) * perPage < perPage

\* C33: every paginated listing loop of package github (repositories, branches,
\* commits) over a finite listing of n items requests pages 1 .. k in increasing order
\* without gaps, where k is the first page that holds fewer than 100 items (an empty
\* page when n is a multiple of 100); it issues at most k requests, none after that
\* page and none after a failed page.
C33_PagesInOrderThenStop ==
    /\ RepositoryRun =>
          /\ InOrderNoGaps(RepoPagesRequested, Len(platformRepos))
          /\ spc = "constructed" =>
                EndsOnShortPage(RepoPagesRequested, Len(platformRepos))
          /\ (spc = "exited" /\ loadFailed) => Len(RepoPagesRequested) = loadPage
          /\ spc = "loading" => Len(RepoPagesRequested) = loadPage - 1
    /\ (CommitRun /\ cop = "SinceFromBranch" /\ cpc # "idle") =>
          LET n == IF RepoKnown(nameArg)
                   THEN Len(Reported(nameArg, sinceArg, branchArg)) ELSE 0
          IN /\ InOrderNoGaps(CommitPagesRequested, n)
             /\ (cpc = "done" /\ ~cerr /\ RepoKnown(nameArg)) =>
                   EndsOnShortPage(CommitPagesRequested, n)
             /\ (cpc = "done" /\ cerr /\ RepoKnown(nameArg)) =>
                   Len(CommitPagesRequested) = cpage
             /\ cpc = "loop" => Len(CommitPagesRequested) = cpage - 1
             /\ ~RepoKnown(nameArg) => reqLog = <<>>
    /\ (BranchRun /\ op = "ByDay") =>
          /\ InOrderNoGaps(branchPages, Len(branchOrder))
          /\ (RepoKnown(repoName) /\ ~listFailed) =>
                /\ ~err
                /\ EndsOnShortPage(branchPages, Len(branchOrder))
          /\ listFailed => (err /\ branches = <<>>)
          /\ ~RepoKnown(repoName) => branchPages = <<>>

\* every loop has fetched a listing of two full pages with three requests, the third
\* answered by an empty page
RepositoryPagesWitness ==
    /\ RepositoryRun
    /\ spc = "constructed"
    /\ Len(platformRepos) = 2 * perPage
    /\ RepoPagesRequested = <<1, 2, 3>>

CommitPagesWitness ==
    /\ CommitRun
    /\ cop = "SinceFromBranch"
    /\ cpc = "done"
    /\ ~cerr
    /\ Len(listed) = 2 * perPage
    /\ CommitPagesRequested = <<1, 2, 3>>

C33_Witness ==
    /\ BranchRun
    /\ op = "ByDay"
    /\ ~err
    /\ Len(branches) = 2 * perPage
    /\ branchPages = <<1, 2, 3>>

\* a request failed on the second page and was the last one
PagesFailureWitness ==
    \/ RepositoryRun /\ spc = "exited" /\ loadFailed /\ RepoPagesRequested = <<1, 2>>
    \/ CommitRun /\ cpc = "done" /\ cerr /\ CommitPagesRequested = <<1, 2>>


----------------------------------------------------------------------------
(* Selection, pages and tasks of the terminal interface *)

\* C34: in every reachable state of the interface every index of the selection set is
\* less than the number of listed repositories, and enter in the repository list never
\* reads a choice outside the list.
C34_SelectionInRange ==
    /\ \A s \in model.selected : s < Len(model.choices)
    /\ running # "panic"

\* enter in the repository list read a choice outside the list
EnterReadOutsideList ==
    /\ running = "panic"
    /\ Pressed("enter")
    /\ prevModel.action = ACTION__SHOW_ALL_REPOS
    /\ \E s \in prevModel.selected : s >= Len(prevModel.choices)


\* paginator.GetSliceBounds(length), as View calls it for the repository list
GetSliceBounds(p, length) ==
    [start |-> p.Page * p.PerPage, end |-> Min(p.Page * p.PerPage + p.PerPage, length)]

\* C35: whenever the repository list is shown with at least one repository, the
\* paginator's page is less than its total page count and page*perPage is at most the
\* number of listed repositories, so that the slice bounds View computes are valid.
C35_PageWithinList ==
    (model.action = ACTION__SHOW_ALL_REPOS /\ Len(model.choices) >= 1) =>
        /\ model.paginator.Page < model.paginator.TotalPages
        /\ model.paginator.Page * model.paginator.PerPage <= Len(model.choices)
        /\ GetSliceBounds(model.paginator, Len(model.choices)).start
              <= GetSliceBounds(model.paginator, Len(model.choices)).end

\* after b and a day with fewer repositories the list is shown on a page it does not have
PageBeyondList ==
    /\ running = "running"
    /\ Pressed("enter")
    /\ prevModel.action = ACTION__SELECT_DAYS
    /\ model.action = ACTION__SHOW_ALL_REPOS
    /\ Len(model.choices) = 1
    /\ model.paginator.Page = 1
    /\ model.paginator.TotalPages = 1


\* the states in which a background task runs
BusyStates == {ACTION__LOADING_COMMITS, ACTION__GENERATING_SUMMARY}

\* C36: at most one background task (commit load or summary generation) is outstanding
\* at any time: a task runs exactly while the state is loading-commits or
\* generating-summary, in these states no key press other than quit starts a task or
\* changes the state, and every completion message is received in the state that was
\* entered when its task was started.
C36_OneTaskAtATime ==
    /\ Cardinality(inflight) <= 1
    /\ running = "running" => (inflight # {} <=> model.action \in BusyStates)
    /\ \A t \in inflight :
          /\ t.kind = "LoadCommits" => model.action = ACTION__LOADING_COMMITS
          /\ t.kind = "GenerateSummary" => model.action = ACTION__GENERATING_SUMMARY
    /\ IsTask(cmd) => (prevModel.action \notin BusyStates /\ inflight = {cmd})
    /\ (lastMsg.type = "KeyMsg" /\ prevModel.action \in BusyStates) =>
          /\ model.action = prevModel.action
          /\ cmd = (IF lastMsg.key \in QuitKeys THEN Quit ELSE NoCmd)
    /\ lastMsg.type = "commitsLoadedMsg" =>
          (prevModel.action = ACTION__LOADING_COMMITS /\ inflight = {})
    /\ lastMsg.type = "summaryGeneratedMsg" =>
          (prevModel.action = ACTION__GENERATING_SUMMARY /\ inflight = {})

\* enter is pressed while the commits load: the load goes on alone
C36_Witness ==
    /\ running = "running"
    /\ Pressed("enter")
    /\ prevModel.action = ACTION__LOADING_COMMITS
    /\ model.action = ACTION__LOADING_COMMITS
    /\ cmd = NoCmd
    /\ \E t \in inflight : t.kind = "LoadCommits" /\ Len(t.repos) = 2


\* the program of a client that holds one repository, with its scheduling: a started
\* task runs to its end (every request completes or times out) and the program handles
\* the message it posts
SpecTuiLive == InitUpdate /\ [][NextTui]_vars /\ WF_vars(TaskCompletes)

\* C37: unless the user quits, the interface eventually leaves loading-commits for
\* commits-shown, and eventually leaves generating-summary for summary-shown or
\* commits-shown.
C37_TasksComplete ==
    /\ (model.action = ACTION__LOADING_COMMITS /\ running = "running")
          ~> (model.action = ACTION__SHOW_COMMITS \/ running # "running")
    /\ (model.action = ACTION__GENERATING_SUMMARY /\ running = "running")
          ~> (model.action \in {ACTION__SHOW_SUMMARY, ACTION__SHOW_COMMITS}
              \/ running # "running")

\* the commits of the selected repository were loaded and are shown
C37_Witness ==
    /\ running = "running"
    /\ lastMsg.type = "commitsLoadedMsg"
    /\ prevModel.action = ACTION__LOADING_COMMITS
    /\ model.action = ACTION__SHOW_COMMITS
    /\ Len(prevModel.repoSelected) = 1
    /\ inflight = {}


----------------------------------------------------------------------------
(* The activity report when the listings overlap *)

\* the owned repository is listed once or twice, and the listing of every organization
\* returns it again next to the organization's own repository
InitShared ==
    /\ now = ListNow
    /\ branchOrder = <<>>
    /\ reach = [b \in BranchNames |-> {}]
    /\ repos = StoredRepos
    /\ AggIdle
    /\ FilterUnused
    /\ LLMIdle
    /\ ConfigUnused
    /\ TuiUnused
    /\ StartUnused
    /\ ListUnused
    /\ \E k \in RepoKinds(AddDays(ListNow, 0 - 7)) :
        ownedRepos \in {<<PlatformRepo("me/app", k)>>,
                        <<PlatformRepo("me/app", k), PlatformRepo("me/app", k)>>}
    /\ orgList \in {<<>>, <<"acme">>, <<"acme", "initech">>}
    /\ \E ka \in RepoKinds(AddDays(ListNow, 0 - 7)) :
        orgRepos = [o \in Orgs |->
                      IF o = "acme" THEN <<PlatformRepo("acme/svc", ka), ownedRepos[1]>>
                      ELSE <<ownedRepos[1]>>]
    /\ ReportIdle

SpecShared == InitShared /\ [][NextReport]_vars

\* C38: the list returned by GetRepositoriesWithRecentCommits never holds two entries
\* with the same fully-qualified name, also when a repository is returned by the owned
\* listing and by an organization listing, and every entry has UpdatedAt after the
\* cutoff.
C38_ReportedOnceAndRecent ==
    /\ NoDup(report)
    /\ NoDup(checkOrder)
    /\ \A i \in 1 .. Len(report) : UpdatedAfter(RepoByName(report[i]), ReportSince)

\* a repository listed as owned and by two organizations is reported, once
C38_Witness ==
    /\ rpc = "done"
    /\ ~rerr
    /\ ~orgListFailed
    /\ failedOrgs = {}
    /\ Len(orgList) = 2
    /\ Len(MapWrites(FALSE, {}, ReportSince)) > Cardinality(reposMap)
    /\ Count(report, "me/app") = 1
    /\ Len(report) = 2

====
